---- MODULE Spec2Model ----
(***************************************************************************)
(* A model of the yellow-paper-ts virtual machine: the instruction step    *)
(* (appendix H), its gas cost, the message call (section 8) and the        *)
(* contract creation (section 7).                                          *)
(*                                                                         *)
(* Words, addresses and storage values are modelled by the numbers they    *)
(* encode and byte strings by sequences of bytes.  A record key (the       *)
(* string that indexes a storage record) is modelled by a pair             *)
(* <<format, number>>, because the source builds keys in two formats.      *)
(* A JavaScript TypeError (a property read on undefined) ends the whole    *)
(* run: operators that can throw return a record with threw = TRUE.        *)
(* The execution cycle of section 9 (equations 138-167) is absent from the *)
(* source; it is modelled from the specification (Z, H, execute, Cycle).   *)
(* The opcodes modelled are those named in the record op below; programs   *)
(* of the model hold no other opcode.                                      *)
(***************************************************************************)
EXTENDS Integers, Sequences, FiniteSets, TLC

VARIABLES
    status,        \* position of the observed call: Idle, Running, Halted*, Threw, Returned
    args,          \* the arguments of the observed messageCall
    worldState,    \* sigma of the running frame
    machineState,  \* mu of the running frame
    subState,      \* A of the running frame
    environment,   \* I of the running frame
    prev,          \* sigma, mu, A before the last cycle
    last,          \* what the last cycle did
    result         \* what messageCall returned

vars == <<status, args, worldState, machineState, subState, environment, prev, last, result>>

-----------------------------------------------------------------------------
(* Bounds of the model *)

\* gas given to the observed call: a plentiful amount and two scarce ones
MaxGas == 40000
MidGas == 2900
LowGas == 30

\* the longest nibble sequence given to the hex-prefix encoding
MaxNibbles == 4

-----------------------------------------------------------------------------
(* Program constants *)

op == [ STOP |-> 0, BALANCE |-> 49, EXTCODESIZE |-> 59, EXTCODECOPY |-> 60,
        EXTCODEHASH |-> 63, PREVRANDAO |-> 68, POP |-> 80, SLOAD |-> 84, SSTORE |-> 85,
        JUMP |-> 86, JUMPI |-> 87, PC |-> 88, GAS |-> 90, JUMPDEST |-> 91,
        PUSH1 |-> 96, DUP1 |-> 128, SWAP1 |-> 144,
        LOG0 |-> 160, LOG1 |-> 161, LOG2 |-> 162, LOG3 |-> 163, LOG4 |-> 164,
        CREATE |-> 240, CALL |-> 241, CALLCODE |-> 242, RETURN |-> 243,
        DELEGATECALL |-> 244, CREATE2 |-> 245, STATICCALL |-> 250,
        REVERT |-> 253, INVALID |-> 254, SELFDESTRUCT |-> 255 ]

\* the opcodes the instruction table gives a stack demand; INVALID has none
opcodes ==
    { op.STOP, op.BALANCE, op.EXTCODESIZE, op.EXTCODECOPY, op.EXTCODEHASH,
      op.PREVRANDAO, op.POP, op.SLOAD, op.SSTORE, op.JUMP, op.JUMPI,
      op.PC, op.GAS, op.JUMPDEST, op.PUSH1, op.DUP1, op.SWAP1,
      op.LOG0, op.LOG1, op.LOG2, op.LOG3, op.LOG4,
      op.CREATE, op.CALL, op.CALLCODE, op.RETURN, op.DELEGATECALL,
      op.CREATE2, op.STATICCALL, op.REVERT, op.SELFDESTRUCT }

\* a row of the instruction table: delta (pop) and alpha (push)
instruction(w) ==
    CASE w = op.STOP         -> [pop |-> 0, push |-> 0]
      [] w = op.BALANCE      -> [pop |-> 1, push |-> 1]
      [] w = op.EXTCODESIZE  -> [pop |-> 1, push |-> 1]
      [] w = op.EXTCODECOPY  -> [pop |-> 4, push |-> 0]
      [] w = op.EXTCODEHASH  -> [pop |-> 1, push |-> 1]
      [] w = op.PREVRANDAO   -> [pop |-> 0, push |-> 1]
      [] w = op.POP          -> [pop |-> 1, push |-> 0]
      [] w = op.SLOAD        -> [pop |-> 1, push |-> 1]
      [] w = op.SSTORE       -> [pop |-> 2, push |-> 0]
      [] w = op.JUMP         -> [pop |-> 1, push |-> 0]
      [] w = op.JUMPI        -> [pop |-> 2, push |-> 0]
      [] w = op.PC           -> [pop |-> 0, push |-> 1]
      [] w = op.GAS          -> [pop |-> 0, push |-> 1]
      [] w = op.JUMPDEST     -> [pop |-> 0, push |-> 0]
      [] w = op.PUSH1        -> [pop |-> 0, push |-> 1]
      [] w = op.DUP1         -> [pop |-> 1, push |-> 2]
      [] w = op.SWAP1        -> [pop |-> 2, push |-> 2]
      [] w = op.LOG0         -> [pop |-> 2, push |-> 0]
      [] w = op.LOG1         -> [pop |-> 3, push |-> 0]
      [] w = op.LOG2         -> [pop |-> 4, push |-> 0]
      [] w = op.LOG3         -> [pop |-> 5, push |-> 0]
      [] w = op.LOG4         -> [pop |-> 6, push |-> 0]
      [] w = op.CREATE       -> [pop |-> 3, push |-> 1]
      [] w = op.CALL         -> [pop |-> 7, push |-> 1]
      [] w = op.CALLCODE     -> [pop |-> 7, push |-> 1]
      [] w = op.RETURN       -> [pop |-> 2, push |-> 0]
      [] w = op.DELEGATECALL -> [pop |-> 6, push |-> 1]
      [] w = op.CREATE2      -> [pop |-> 4, push |-> 1]
      [] w = op.STATICCALL   -> [pop |-> 6, push |-> 1]
      [] w = op.REVERT       -> [pop |-> 2, push |-> 0]
      [] w = op.SELFDESTRUCT -> [pop |-> 1, push |-> 0]

\* an instruction table whose PUSH1 row pushes nothing
instructionsWithoutPushOfPUSH1 ==
    [w \in opcodes |-> IF w = op.PUSH1 THEN [pop |-> 0, push |-> 0] ELSE instruction(w)]

\* the instruction table
instructions == [w \in opcodes |-> instruction(w)]

\* G, the fee schedule; refundStorageClear is reassigned to storageReset + accessListStorage
cost == [ zero |-> 0, jumpDest |-> 1, base |-> 2, veryLow |-> 3, low |-> 5, mid |-> 8,
          high |-> 10, warmAccess |-> 100, accessListAddress |-> 2400,
          accessListStorage |-> 1900, coldAccountAccess |-> 2600, coldSload |-> 2100,
          storageSet |-> 20000, storageReset |-> 2900, refundStorageClear |-> 2900 + 1900,
          selfDestruct |-> 5000, create |-> 32000, codeDeposit |-> 200,
          callValue |-> 9000, callStipend |-> 2300, newAccount |-> 25000,
          memory |-> 3, copy |-> 3, log |-> 375, logData |-> 8, logTopic |-> 375, keccak256Word |-> 6 ]

\* the cost classes, restricted to the opcodes of the model; the lists are read
\* as the source writes them, with op holding the numbers of the table
zeroCostInstructions == { op.STOP, op.RETURN, op.REVERT }
\* op.DIFFICULTY, which the list of the base class names, is no name of the
\* instruction table (0x44 is PREVRANDAO there) and is undefined
baseCostInstructions == { op.POP, op.PC, op.GAS }
veryLowCostInstructions == { op.PUSH1, op.DUP1, op.SWAP1 }
midCostInstructions == { op.JUMPDEST }
highCostInstructions == { op.JUMPI }
callCostInstructions == { op.CALL, op.CALLCODE, op.DELEGATECALL, op.STATICCALL }
extAccountCostInstructions == { op.BALANCE, op.EXTCODESIZE, op.EXTCODEHASH }

\* the call depth above which CALL, CALLCODE and CREATE start no frame
CallDepthLimit == 1024

\* the stack limit of the specification (section 4.2)
StackLimit == 1024

\* pi, the precompiled contracts' addresses
precompiledAddresses == <<1, 2, 3, 4, 5, 6, 7, 8, 9>>

-----------------------------------------------------------------------------
(* Values and helpers *)

\* the null world state an execution returns when it fails
null == <<"null">>

\* the key bytesToHexString(bigintToBytes(k, 32)) of a storage record
bytesToHexString(k) == <<"bytes", k>>

\* the key `0x${k.toString(16)}n`
bigintToHexString(k) == <<"0xn", k>>

Min(a, b) == IF a < b THEN a ELSE b
Max(a, b) == IF a > b THEN a ELSE b
CeilDiv(a, b) == (a + b - 1) \div b

\* Uint8Array.prototype.slice(start, end): negative indexes count from the end
SliceIndex(len, i) == IF i < 0 THEN Max(len + i, 0) ELSE Min(i, len)
slice(bytes, start, end) ==
    LET from == SliceIndex(Len(bytes), start)
        to   == SliceIndex(Len(bytes), end)
    IN  IF to <= from THEN <<>> ELSE SubSeq(bytes, from + 1, to)

\* array.includes(x) / array.some(...)
includes(array, x) == \E i \in 1..Len(array) : array[i] = x

\* sigma[a] !== undefined
hasAccount(state, a) == a \in DOMAIN state

\* state with the account at a deleted
deleteAccount(state, a) == [x \in (DOMAIN state) \ {a} |-> state[x]]

\* state with the account at a set
setAccount(state, a, acc) == [x \in (DOMAIN state) \cup {a} |-> IF x = a THEN acc ELSE state[x]]

\* state[a]?.storage[key] !== undefined
hasSlot(state, a, key) == hasAccount(state, a) /\ key \in DOMAIN state[a].storage

\* state[a].storage with storage[key] = value
setSlot(storage, key, value) ==
    [k \in (DOMAIN storage) \cup {key} |-> IF k = key THEN value ELSE storage[k]]

\* KEC, taken as injective
KEC(bytes) == <<"KEC", bytes>>

\* bigint division: the quotient is truncated towards zero
TruncDiv(a, b) == IF a >= 0 THEN a \div b ELSE -((-a) \div b)

\* ms.stack[i] of the source: index 0 is the top
st(ms, i) == ms.stack[i + 1]

\* the stack after n shift()
shift(stack, n) == SubSeq(stack, n + 1, Len(stack))

\* no clone: a handle on the object x itself
sameObject(x) == [copy |-> FALSE, value |-> x]

\* structuredClone(x): a handle on a new object that holds the value of x
structuredClone(x) == [copy |-> TRUE, value |-> x]

\* what the object x holds once the writes made through the handle h have
\* produced the value v: a copy takes the writes in place of x
givenAfter(h, x, v) == IF h.copy THEN x ELSE v

-----------------------------------------------------------------------------
(* Section 4.1: dead and empty accounts *)

\* EMPTY(sigma, a): emptyCode is set when the code hash differs from KEC(())
isAccountEmpty(state, a) ==
    /\ hasAccount(state, a)
    /\ state[a].codeHash # KEC(<<>>)
    /\ state[a].nonce = 0
    /\ state[a].balance = 0

\* DEAD(sigma, a)
isAccountDead(state, a) == ~hasAccount(state, a) \/ isAccountEmpty(state, a)

-----------------------------------------------------------------------------
(* Appendix H.1: gas cost *)

\* w, the opcode at pc, STOP past the end of the code
getOpcode(ms, env) ==
    IF ms.pc < Len(env.code) THEN env.code[ms.pc + 1] ELSE 0

getCodeByte(env, x) == IF x >= Len(env.code) THEN 0 ELSE env.code[x + 1]

\* Cmem(a)
getMemoryCost(wordCount) == cost.memory * wordCount + ((wordCount * wordCount) \div 512)

\* Caaccess(x, A)
getAccessCost(address, sub) ==
    IF includes(sub.accessedAccounts, address) THEN cost.warmAccess ELSE cost.coldAccountAccess

\* M(s, f, l)
memoryExpansion(wordCount, offset, size) ==
    IF size = 0 THEN wordCount ELSE Max(wordCount, CeilDiv(offset + size, 32))

\* L(n)
allButOne64th(n) == n - TruncDiv(n, 64)

\* the slot test of sLoadCost and sstoreCost: the stored key is compared as
\* bytesToHexString(slot[1]), the stack word as bigintToHexString(stack[0])
isWarm(ms, sub, env) ==
    \E i \in 1..Len(sub.accessedStorageKeys) :
        /\ sub.accessedStorageKeys[i][1] = env.currentAddress
        /\ bytesToHexString(sub.accessedStorageKeys[i][2]) = bigintToHexString(st(ms, 0))

\* CSLOAD
sLoadCost(ms, sub, env) ==
    IF isWarm(ms, sub, env) THEN cost.warmAccess ELSE cost.coldSload

\* CSSTORE throws when bytesToBigint gets the undefined value of a slot that
\* the record does not hold under the key bigintToHexString(stack[0])
sstoreCostThrows(checkpointWorldState, transitionalWorldState, ms, env) ==
    \/ ~hasSlot(checkpointWorldState, env.currentAddress, bigintToHexString(st(ms, 0)))
    \/ ~hasSlot(transitionalWorldState, env.currentAddress, bigintToHexString(st(ms, 0)))

\* CSSTORE
sstoreCost(checkpointWorldState, transitionalWorldState, ms, sub, env) ==
    LET key           == bigintToHexString(st(ms, 0))
        originalValue == checkpointWorldState[env.currentAddress].storage[key]
        currentValue  == transitionalWorldState[env.currentAddress].storage[key]
        newValue      == st(ms, 1)
        access        == IF isWarm(ms, sub, env) THEN 0 ELSE cost.coldSload
    IN  access +
        ( IF currentValue = newValue \/ originalValue # currentValue THEN cost.warmAccess
          ELSE IF originalValue = 0 THEN cost.storageSet
          ELSE IF newValue = 0 THEN cost.storageReset
          ELSE 0 )

\* CXFER
transferCost(ms) == IF st(ms, 2) = 0 THEN cost.callValue ELSE 0

\* CNEW
newAccountCost(state, ms) ==
    IF isAccountDead(state, st(ms, 1)) /\ st(ms, 2) = 0
    THEN cost.newAccount ELSE 0

\* CEXTRA
extraCost(state, ms, sub) ==
    getAccessCost(st(ms, 1), sub) + transferCost(ms)
        + newAccountCost(state, ms)

\* CGASCAP
gasCap(state, ms, sub) ==
    LET extra == extraCost(state, ms, sub)
    IN  IF ms.availableGas >= extra
        THEN Min(allButOne64th(ms.availableGas - extra), st(ms, 0))
        ELSE st(ms, 0)

\* CCALL
callCost(state, ms, sub) ==
    gasCap(state, ms, sub) + extraCost(state, ms, sub)

\* CCALLGAS
callGasCost(state, ms, sub) ==
    IF st(ms, 2) # 0
    THEN gasCap(state, ms, sub) + cost.callStipend
    ELSE gasCap(state, ms, sub)

\* CSELFDESTRUCT
selfDestructCost(state, ms, sub, env) ==
    LET address == st(ms, 0)
        accessCost == IF includes(sub.accessedAccounts, address) THEN 0 ELSE cost.coldAccountAccess
        newAccount ==
            IF \/ isAccountDead(state, address)
               \/ ~hasAccount(state, env.currentAddress)
               \/ state[env.currentAddress].balance # 0
            THEN cost.newAccount ELSE 0
    IN  cost.selfDestruct + accessCost + newAccount

\* C throws only through CSSTORE
gasCostThrows(oldWorldState, newWorldState, ms, env) ==
    /\ getOpcode(ms, env) = op.SSTORE
    /\ sstoreCostThrows(oldWorldState, newWorldState, ms, env)

\* the number of topics of LOG0..LOG4
LogTopics(opcode) == opcode - op.LOG0

\* C(sigma, mu, A, I): the memory expansion and the surcharge of every class the opcode is in
gasCost(oldWorldState, newWorldState, ms, sub, env, newMemoryWordCount) ==
    LET opcode == getOpcode(ms, env)
        In(class, c) == IF opcode \in class THEN c ELSE 0
    IN  (getMemoryCost(newMemoryWordCount) - getMemoryCost(ms.memoryWordCount))
        + (IF opcode = op.SSTORE
           THEN sstoreCost(oldWorldState, newWorldState, ms, sub, env) ELSE 0)
        + (IF opcode = op.EXTCODECOPY
           THEN getAccessCost(st(ms, 0), sub) + (cost.copy * CeilDiv(st(ms, 3), 32)) ELSE 0)
        + (IF opcode \in extAccountCostInstructions
           THEN getAccessCost(st(ms, 0), sub) ELSE 0)
        + (IF opcode \in { op.LOG0, op.LOG1, op.LOG2, op.LOG3, op.LOG4 }
           THEN cost.log + (cost.logData * st(ms, 1))
                + (LogTopics(opcode) * cost.logTopic) ELSE 0)
        + (IF opcode \in callCostInstructions
           THEN callCost(newWorldState, ms, sub) ELSE 0)
        + (IF opcode = op.SELFDESTRUCT
           THEN selfDestructCost(newWorldState, ms, sub, env) ELSE 0)
        + (IF opcode = op.CREATE THEN cost.create ELSE 0)
        + (IF opcode = op.CREATE2
           THEN cost.create + (cost.keccak256Word * CeilDiv(st(ms, 2), 32)) ELSE 0)
        + (IF opcode = op.JUMPDEST THEN cost.jumpDest ELSE 0)
        + (IF opcode = op.SLOAD THEN sLoadCost(ms, sub, env) ELSE 0)
        + In(zeroCostInstructions, cost.zero)
        + In(baseCostInstructions, cost.base)
        + In(veryLowCostInstructions, cost.veryLow)
        + In(midCostInstructions, cost.mid)
        + In(highCostInstructions, cost.high)

\* a jump target read one byte too far
jumpTargetOffByOne(ms) == st(ms, 0) + 1

\* JJUMP
jumpTarget(ms) == st(ms, 0)

\* JJUMPI
jumpiTarget(ms) ==
    IF st(ms, 1) # 0 THEN st(ms, 0) ELSE ms.pc + 1

\* HRETURN
returnedData(ms) ==
    slice(ms.memory, st(ms, 0),
          st(ms, 0) + st(ms, 1) - 1)

-----------------------------------------------------------------------------
(* Appendix D: the root hash, as far as the calls of sections 7 and 8 need it *)

\* c(J, i) reads dataset[0][0][0] unless the dataset holds exactly one entry:
\* on the empty dataset that is a read on undefined
createNodeThrows(dataset) == Len(dataset) = 0

\* TRIE(J)
computeRootHashThrows(dataset) == createNodeThrows(dataset)

-----------------------------------------------------------------------------
(* Results *)

\* what step returns; on a throw nothing is returned
StepResult(ws, ms, sub) ==
    [threw |-> FALSE, worldState |-> ws, machineState |-> ms, subState |-> sub]
StepThrew(ws, ms, sub) ==
    [threw |-> TRUE, worldState |-> ws, machineState |-> ms, subState |-> sub]

\* what messageCall, createContract and execute return
CallResult(ws, gas, sub, z, o) ==
    [threw |-> FALSE, worldState |-> ws, remainingGas |-> gas, subState |-> sub,
     status |-> z, output |-> o]
CallThrew == 
    [threw |-> TRUE, worldState |-> null, remainingGas |-> 0, subState |-> <<>>,
     status |-> 0, output |-> <<>>]

RECURSIVE step(_, _, _, _)
RECURSIVE run(_, _, _, _, _)

-----------------------------------------------------------------------------
(* Section 9: the execution cycle, modelled from the specification *)

\* D(c), as the specification states it: the byte at the target is JUMPDEST
validJumpDest(env, target) ==
    target < Len(env.code) /\ env.code[target + 1] = op.JUMPDEST

\* a static check that knows the storage write only
staticViolationOfStorage(opcode) == opcode = op.SSTORE

\* W(w, mu): the opcodes a static frame may not execute
staticViolation(opcode) ==
    opcode \in { op.SSTORE, op.LOG0, op.LOG1, op.LOG2, op.LOG3, op.LOG4,
                 op.CREATE, op.CREATE2, op.SELFDESTRUCT }

\* Z without the gas test: the kind of exceptional halt, or "none"
Z(ms, env) ==
    LET w == getOpcode(ms, env)
    IN  IF w \notin DOMAIN instructions THEN "invalid-opcode"
        ELSE IF Len(ms.stack) < instructions[w].pop THEN "stack-underflow"
        ELSE IF Len(ms.stack) - instructions[w].pop + instructions[w].push > StackLimit
             THEN "stack-overflow"
        ELSE IF w = op.JUMP /\ ~validJumpDest(env, jumpTarget(ms))
             THEN "invalid-jump-destination"
        ELSE IF w = op.JUMPI /\ st(ms, 1) # 0 /\ ~validJumpDest(env, jumpiTarget(ms))
             THEN "invalid-jump-destination"
        ELSE IF ~env.canModifyState /\ staticViolation(w) THEN "static-write-violation"
        ELSE "none"

\* N(pc, w): the next pc of an opcode that does not jump
nextPc(ms, w) == IF w = op.PUSH1 THEN ms.pc + 2 ELSE ms.pc + 1

\* H: the state a cycle of opcode w ends in
H(w) ==
    IF w \in { op.STOP, op.RETURN, op.SELFDESTRUCT } THEN "HaltedNormal"
    ELSE IF w = op.REVERT THEN "HaltedRevert"
    ELSE "Running"

CycleResult(s, kind, c, ws, ms, sub) ==
    [status |-> s, kind |-> kind, cost |-> c,
     worldState |-> ws, machineState |-> ms, subState |-> sub]

\* a cycle, given the result r of the step and its cost c: validate, charge
\* the cost, move pc
cycleOutcome(ws, ms, sub, env, r, costThrows, c) ==
    LET w == getOpcode(ms, env)
        z == Z(ms, env)
        exhausted == [ms EXCEPT !.availableGas = 0]
    IN  IF z # "none" THEN CycleResult("HaltedException", z, 0, ws, exhausted, sub)
        ELSE IF r.threw \/ costThrows
             THEN CycleResult("Threw", "none", 0, ws, ms, sub)
        ELSE IF ms.availableGas < c
             THEN CycleResult("HaltedException", "out-of-gas", c, ws, exhausted, sub)
        ELSE CycleResult(H(w), "none", c, r.worldState,
                 [r.machineState EXCEPT
                     !.availableGas = @ - c,
                     !.pc = IF w \in { op.JUMP, op.JUMPI } THEN @ ELSE nextPc(ms, w)],
                 r.subState)

\* the cost of the step whose result is r
stepCost(checkpoint, ws, ms, sub, env, r) ==
    gasCost(checkpoint, ws, ms, sub, env, r.machineState.memoryWordCount)

\* a cycle, given the result r of the step
cycleOf(checkpoint, ws, ms, sub, env, r) ==
    cycleOutcome(ws, ms, sub, env, r, gasCostThrows(checkpoint, ws, ms, env),
                 stepCost(checkpoint, ws, ms, sub, env, r))

\* one cycle of the interpreter on a running frame; checkpoint is sigma0
Cycle(checkpoint, ws, ms, sub, env) ==
    cycleOf(checkpoint, ws, ms, sub, env, step(ws, ms, sub, env))

\* the machine state a frame starts in
initialMachineState(gas) ==
    [availableGas |-> gas, pc |-> 0, memory |-> <<>>, memoryWordCount |-> 0,
     stack |-> <<>>, output |-> <<>>]

\* what execute returns for a frame that has left Running
executionResult(s, ws, ms, sub) ==
    CASE s = "Threw" -> CallThrew
      [] s = "HaltedNormal" -> CallResult(ws, ms.availableGas, sub, 1, ms.output)
      [] s = "HaltedRevert" -> CallResult(null, ms.availableGas, sub, 0, ms.output)
      [] s = "HaltedException" -> CallResult(null, 0, sub, 0, <<>>)

\* the cycles of a frame, up to its halt
resume(checkpoint, env, c) ==
    IF c.status = "Running"
    THEN run(checkpoint, c.worldState, c.machineState, c.subState, env)
    ELSE executionResult(c.status, c.worldState, c.machineState, c.subState)

run(checkpoint, ws, ms, sub, env) ==
    resume(checkpoint, env, Cycle(checkpoint, ws, ms, sub, env))

\* Xi(sigma, g, A, I)
execute(ws, gas, sub, env) == run(ws, ws, initialMachineState(gas), sub, env)

-----------------------------------------------------------------------------
(* Section 8: message call *)

\* the account equation (119) would create; its storageRoot is computeRootHash([])
newAccount(nonce, balance) ==
    [nonce |-> nonce, balance |-> balance, storage |-> <<>>,
     codeHash |-> KEC(<<>>), code |-> <<>>]

\* sigma1: the sender is debited, the recipient credited or created
firstTransitionalState(ws, sender, recipient, value) ==
    LET debited ==
            IF ~hasAccount(ws, sender) /\ value = 0 THEN ws
            ELSE [ws EXCEPT ![sender].balance = @ - value]
        credited ==
            IF ~hasAccount(ws, recipient) /\ value # 0
            THEN setAccount(debited, recipient, newAccount(0, value))
            ELSE IF ~hasAccount(ws, recipient) /\ value = 0 THEN debited
            ELSE [debited EXCEPT ![recipient].balance = @ + value]
        threw ==
            \/ ~hasAccount(ws, sender) /\ value # 0
            \/ ~hasAccount(ws, recipient) /\ value # 0 /\ computeRootHashThrows(<<>>)
    IN  [threw |-> threw,
         state |-> IF ~threw THEN credited
                   ELSE IF hasAccount(ws, sender) THEN debited ELSE ws]

\* the world state passed to firstTransitionalState, after the call
firstTransitionalStateGiven(ws, sender, recipient, value) ==
    givenAfter(structuredClone(ws), ws,
               firstTransitionalState(ws, sender, recipient, value).state)

\* I of the called frame; the read of the code throws when no account is at codeAddress
messageCallEnvironment(transitionalState, sender, origin, recipient, codeAddress, apparentValue, effectiveGasPrice, data, callStackDepth, allowModifications) ==
    [currentAddress |-> recipient, originAddress |-> origin,
     gasPrice |-> effectiveGasPrice, callData |-> data, callerAddress |-> sender,
     value |-> apparentValue, callDepth |-> callStackDepth,
     canModifyState |-> allowModifications,
     code |-> IF hasAccount(transitionalState, codeAddress)
              THEN transitionalState[codeAddress].code ELSE <<>>]

\* a messageCall that hands back the sub-state of the execution even when it failed
messageCallResultKeepingSubState(ws, sub, exec) ==
    IF exec.threw THEN CallThrew
    ELSE CallResult(
        IF exec.worldState = null THEN ws ELSE exec.worldState,
        IF exec.worldState = null \/ Len(exec.output) = 0 THEN 0 ELSE exec.remainingGas,
        exec.subState,
        IF exec.worldState = null THEN 0 ELSE 1,
        exec.output)

\* equations (121)-(124): what messageCall makes of the execution's result
messageCallResult(ws, sub, exec) ==
    IF exec.threw THEN CallThrew
    ELSE CallResult(
        IF exec.worldState = null THEN ws ELSE exec.worldState,
        IF exec.worldState = null \/ Len(exec.output) = 0 THEN 0 ELSE exec.remainingGas,
        IF exec.worldState = null THEN sub ELSE exec.subState,
        IF exec.worldState = null THEN 0 ELSE 1,
        exec.output)

\* Theta(sigma, A, s, o, r, c, g, v, ~v, p, d, e, w); codeAddress is no precompiled contract
messageCall(ws, sub, sender, origin, recipient, codeAddress, availableGas, transferredValue, apparentValue, effectiveGasPrice, data, callStackDepth, allowModifications) ==
    LET t == firstTransitionalState(ws, sender, recipient, transferredValue)
        env == messageCallEnvironment(t.state, sender, origin, recipient, codeAddress,
                   apparentValue, effectiveGasPrice, data, callStackDepth,
                   allowModifications)
    IN  IF t.threw \/ ~hasAccount(t.state, codeAddress) THEN CallThrew
        ELSE messageCallResult(ws, sub, execute(t.state, availableGas, sub, env))

-----------------------------------------------------------------------------
(* Section 7: contract creation *)

\* the key of the address KEC(...).slice(96): a 32-byte hash has no byte 96,
\* the address is the empty byte string
emptyBytes == -1

\* the 32 bytes of the hash h; byte i of h is written <<h, i>>
digest(h) == [i \in 1..32 |-> <<h, i>>]

\* RLP, taken as injective
rlp(x) == <<"rlp", x>>

\* LA(s, n, zeta, i): with an empty salt the list holds the salt and the nonce
serializeContractCreation(sender, nonce, salt, initCode) ==
    IF Len(salt) = 0 THEN rlp(<<salt, nonce>>)
    ELSE <<255, sender, salt, KEC(initCode)>>

\* the bytes KEC(LA(s, n, zeta, i)).slice(96)
contractCreationAddressBytes(sender, nonce, salt, initCode) ==
    slice(digest(KEC(serializeContractCreation(sender, nonce, salt, initCode))),
          96, Len(digest(KEC(serializeContractCreation(sender, nonce, salt, initCode)))))

\* the account key of an address given by its bytes
bytesToAddress(bytes) == IF Len(bytes) = 0 THEN emptyBytes ELSE bytes

\* ADDR(s, n, zeta, i), as the key of the account
contractCreationAddress(sender, nonce, salt, initCode) ==
    bytesToAddress(contractCreationAddressBytes(sender, nonce, salt, initCode))

\* A*
contractCreationSubState(newContractAddress, sub) ==
    [sub EXCEPT !.accessedAccounts = Append(@, newContractAddress)]

\* the sub-state passed to contractCreationSubState, after the call
contractCreationSubStateGiven(newContractAddress, sub) ==
    givenAfter(structuredClone(sub), sub, contractCreationSubState(newContractAddress, sub))

\* v': called with the sender in place of the contract address
contractPreExistingBalance(contractAddress, ws) ==
    IF hasAccount(ws, contractAddress) THEN ws[contractAddress].balance ELSE 0

\* sigma*
contractCreationWorldState(sender, newContractAddress, value, ws) ==
    LET created == setAccount(ws, newContractAddress,
                       newAccount(1, value + contractPreExistingBalance(sender, ws)))
        threw == computeRootHashThrows(<<>>) \/ (~hasAccount(created, sender) /\ value # 0)
        state == IF hasAccount(created, sender) /\ value = 0
                 THEN deleteAccount(created, sender)
                 ELSE IF hasAccount(created, sender)
                      THEN [created EXCEPT ![sender].balance = @ - value]
                      ELSE created
    IN  [threw |-> threw, state |-> IF threw THEN ws ELSE state]

\* the world state passed to contractCreationWorldState, after the call
contractCreationWorldStateGiven(sender, newContractAddress, value, ws) ==
    givenAfter(structuredClone(ws), ws,
               contractCreationWorldState(sender, newContractAddress, value, ws).state)

\* c
finalCost(output) == cost.codeDeposit * Len(output)

\* F; the code hash is compared to a fresh array, which no account's hash is
hasContractCreationFailed(contractAddress, initialState, finalState, remainingGas, finalCreateCost, output) ==
    \/ hasAccount(initialState, contractAddress)
    \/ (finalState = null /\ Len(output) = 0)
    \/ remainingGas < finalCreateCost
    \/ Len(output) > 24576
    \/ (Len(output) > 0 /\ output[1] = 239)

\* equations (107)-(112): what createContract makes of the execution's result
createContractResult(ws, newSubState, a, exec) ==
    LET c == finalCost(exec.output)
        failure == hasContractCreationFailed(a, ws, exec.worldState, exec.remainingGas,
                                             c, exec.output)
        failed == failure \/ exec.worldState = null
        finalState ==
            IF failed THEN ws
            ELSE IF isAccountDead(exec.worldState, a) THEN deleteAccount(exec.worldState, a)
            ELSE [exec.worldState EXCEPT ![a].codeHash = KEC(exec.output)]
    IN  IF exec.threw THEN CallThrew
        ELSE CallResult(finalState,
                        IF failure THEN 0 ELSE exec.remainingGas - c,
                        IF failed THEN newSubState ELSE exec.subState,
                        IF failed THEN 0 ELSE 1,
                        exec.output)

\* Lambda(sigma, A, s, o, g, p, v, i, e, zeta, w)
createContract(ws, sub, sender, origin, availableGas, effectiveGasPrice, value, initCode, callStackDepth, salt, allowModifications) ==
    LET senderNonce == ws[sender].nonce - 1
        a == contractCreationAddress(sender, senderNonce, salt, initCode)
        newSubState == contractCreationSubState(a, sub)
        new == contractCreationWorldState(sender, a, value, ws)
        env == [currentAddress |-> a, originAddress |-> origin,
                gasPrice |-> effectiveGasPrice, callData |-> <<>>,
                callerAddress |-> sender, value |-> value, code |-> initCode,
                callDepth |-> callStackDepth, canModifyState |-> allowModifications]
    IN  IF ~hasAccount(ws, sender) \/ new.threw THEN CallThrew
        ELSE createContractResult(ws, newSubState, a,
                 execute(new.state, availableGas, newSubState, env))

-----------------------------------------------------------------------------
(* Appendix H.2: the instruction step O *)

\* stack with x unshifted
unshift(stack, x) == <<x>> \o stack

\* SSTORE: the refund reads the slot's value through bytesToBigint, which
\* throws on the undefined value of a slot the record does not hold
stepSSTORE(oldWorldState, ms, sub, env) ==
    LET key == bytesToHexString(st(ms, 0))
        a == env.currentAddress
        oldValue == oldWorldState[a].storage[key]
        currentValue == oldWorldState[a].storage[key]
        value == st(ms, 1)
        dirtyClear ==
            IF oldValue # 0 /\ currentValue = 0 THEN -cost.refundStorageClear
            ELSE IF oldValue # 0 /\ value = 0 THEN cost.refundStorageClear
            ELSE 0
        dirtyReset ==
            IF oldValue = value /\ oldValue = 0 THEN cost.storageSet - cost.warmAccess
            ELSE IF oldValue = value /\ oldValue # 0 THEN cost.storageReset - cost.warmAccess
            ELSE 0
        refund ==
            IF currentValue # value /\ oldValue = currentValue /\ value = 0
            THEN cost.refundStorageClear
            ELSE IF currentValue # value /\ oldValue # currentValue
            THEN dirtyClear + dirtyReset
            ELSE 0
    IN  IF ~hasAccount(oldWorldState, a)
        THEN StepThrew(oldWorldState, [ms EXCEPT !.stack = shift(@, 2)], sub)
        ELSE IF ~hasSlot(oldWorldState, a, key)
        THEN StepThrew([oldWorldState EXCEPT ![a].storage = setSlot(@, key, value)],
                 [ms EXCEPT !.stack = shift(@, 2)],
                 [sub EXCEPT !.accessedStorageKeys = Append(@, <<a, st(ms, 0)>>)])
        ELSE StepResult(
            [oldWorldState EXCEPT ![a].storage = setSlot(@, key, value)],
            [ms EXCEPT !.stack = shift(@, 2)],
            [sub EXCEPT !.accessedStorageKeys = Append(@, <<a, st(ms, 0)>>),
                        !.refund = @ + refund])

\* a LOG that takes its data cost from the gas itself
stepLOGCharging(ws, ms, sub, env, topics) ==
    LET offset == st(ms, 0)
        size == st(ms, 1)
        log == <<env.currentAddress, SubSeq(ms.stack, 3, 2 + topics),
                 slice(ms.memory, offset, offset + size)>>
    IN  StepResult(ws,
            [ms EXCEPT !.stack = shift(@, 2 + topics),
                       !.availableGas = @ - cost.log,
                       !.memoryWordCount = memoryExpansion(ms.memoryWordCount, offset, size)],
            [sub EXCEPT !.logs = Append(@, log)])

\* LOG0..LOG4
stepLOG(ws, ms, sub, env, topics) ==
    LET offset == st(ms, 0)
        size == st(ms, 1)
        log == <<env.currentAddress, SubSeq(ms.stack, 3, 2 + topics),
                 slice(ms.memory, offset, offset + size)>>
    IN  StepResult(ws,
            [ms EXCEPT !.stack = shift(@, 2 + topics),
                       !.memoryWordCount = memoryExpansion(ms.memoryWordCount, offset, size)],
            [sub EXCEPT !.logs = Append(@, log)])

\* CREATE, from the result res of the creation
createOutcome(ws, ms, sub, env, res) ==
    LET memOffset == st(ms, 1)
        size == st(ms, 2)
        code == slice(ms.memory, memOffset, memOffset + size)
        balanceOk == st(ms, 0) <= ws[env.currentAddress].balance
        depthOk == env.callDepth < CallDepthLimit
        contractAddress ==
            IF res.status = 0 \/ ~depthOk \/ ~balanceOk THEN 0
            ELSE contractCreationAddress(env.currentAddress,
                     res.worldState[env.currentAddress].nonce, <<>>, code)
    IN  IF ~hasAccount(ws, env.currentAddress) \/ res.threw
        THEN StepThrew(ws, [ms EXCEPT !.stack = shift(@, 3)], sub)
        ELSE StepResult(res.worldState,
                [ms EXCEPT
                    !.stack = unshift(shift(@, 3), contractAddress),
                    !.availableGas = @ - (allButOne64th(@) - res.remainingGas),
                    !.memoryWordCount = memoryExpansion(@, memOffset, size),
                    !.output = IF res.status = 1 THEN <<>> ELSE res.output],
                res.subState)

\* CREATE
stepCREATE(ws, ms, sub, env) ==
    LET value == st(ms, 0)
        memOffset == st(ms, 1)
        size == st(ms, 2)
        code == slice(ms.memory, memOffset, memOffset + size)
        salt == <<>>
        balanceOk == value <= ws[env.currentAddress].balance
        depthOk == env.callDepth < CallDepthLimit
        createWorldState == [ws EXCEPT ![env.currentAddress].nonce = @ + 1]
    IN  createOutcome(ws, ms, sub, env,
            IF ~hasAccount(ws, env.currentAddress) THEN CallThrew
            ELSE IF balanceOk /\ depthOk
            THEN createContract(createWorldState, sub, env.currentAddress,
                     env.originAddress, allButOne64th(ms.availableGas), env.gasPrice,
                     value, code, env.callDepth + 1, salt, env.canModifyState)
            ELSE CallResult(ws, allButOne64th(ms.availableGas), sub, 0, <<>>))

\* memory after memory[n + i] = output[i] for i < n
copyOutput(memory, output, n) ==
    [j \in 1..Len(memory) |->
        IF j - 1 >= n /\ j - 1 < 2 * n THEN output[j - n] ELSE memory[j]]

\* CALL and CALLCODE, from the result res of the message call
callOutcome(ws, ms, sub, env, res) ==
    LET gas == callGasCost(ws, ms, sub)
        inputOffset == st(ms, 3)
        inputSize == st(ms, 4)
        outputOffset == st(ms, 5)
        outputSize == st(ms, 6)
        balanceOk == st(ms, 2) <= ws[env.currentAddress].balance
        depthOk == env.callDepth < CallDepthLimit
        n == Min(outputSize, Len(res.output))
        x == IF res.status = 0 \/ ~depthOk \/ ~balanceOk THEN 0 ELSE 1
    IN  IF ~hasAccount(ws, env.currentAddress) \/ res.threw
        THEN StepThrew(ws, [ms EXCEPT !.stack = shift(@, 7)], sub)
        ELSE StepResult(res.worldState,
                [ms EXCEPT
                    !.stack = unshift(shift(@, 7), x),
                    !.memory = copyOutput(@, res.output, n),
                    !.output = res.output,
                    !.availableGas = @ - (gas + res.remainingGas),
                    !.memoryWordCount =
                        memoryExpansion(memoryExpansion(@, inputOffset, inputSize),
                                        outputOffset, outputSize)],
                res.subState)

\* a CALL that starts the message call whatever the balance and the depth
subCallUnchecked(ws, ms, sub, env, callCode) ==
    LET to == st(ms, 1)
        value == st(ms, 2)
    IN  IF ~hasAccount(ws, env.currentAddress) THEN CallThrew
        ELSE messageCall(ws, [sub EXCEPT !.accessedAccounts = Append(@, to)],
                 env.currentAddress, env.originAddress,
                 IF callCode THEN env.currentAddress ELSE to, to,
                 callGasCost(ws, ms, sub), env.gasPrice, value, value,
                 slice(ms.memory, st(ms, 3), st(ms, 3) + st(ms, 4)),
                 env.callDepth + 1, env.canModifyState)

\* a CALL that looks at the balance and not at the depth
subCallAtAnyDepth(ws, ms, sub, env, callCode) ==
    LET to == st(ms, 1)
        value == st(ms, 2)
    IN  IF ~hasAccount(ws, env.currentAddress) THEN CallThrew
        ELSE IF value <= ws[env.currentAddress].balance
        THEN messageCall(ws, [sub EXCEPT !.accessedAccounts = Append(@, to)],
                 env.currentAddress, env.originAddress,
                 IF callCode THEN env.currentAddress ELSE to, to,
                 callGasCost(ws, ms, sub), env.gasPrice, value, value,
                 slice(ms.memory, st(ms, 3), st(ms, 3) + st(ms, 4)),
                 env.callDepth + 1, env.canModifyState)
        ELSE CallResult(ws, callGasCost(ws, ms, sub), sub, 0, <<>>)

\* the result of the message call of CALL and CALLCODE, or of its refusal
subCall(ws, ms, sub, env, callCode) ==
    LET gas == callGasCost(ws, ms, sub)
        to == st(ms, 1)
        value == st(ms, 2)
        input == slice(ms.memory, st(ms, 3), st(ms, 3) + st(ms, 4))
        balanceOk == value <= ws[env.currentAddress].balance
        depthOk == env.callDepth < CallDepthLimit
        callSubState == [sub EXCEPT !.accessedAccounts = Append(@, to)]
    IN  IF ~hasAccount(ws, env.currentAddress) THEN CallThrew
        ELSE IF balanceOk /\ depthOk
        THEN messageCall(ws, callSubState, env.currentAddress, env.originAddress,
                 IF callCode THEN env.currentAddress ELSE to, to, gas,
                 env.gasPrice, value, value, input, env.callDepth + 1,
                 env.canModifyState)
        ELSE CallResult(ws, gas, sub, 0, <<>>)

\* CALL and CALLCODE, which differ in the recipient of the message call only
stepCALL(ws, ms, sub, env, callCode) ==
    callOutcome(ws, ms, sub, env, subCall(ws, ms, sub, env, callCode))

\* SELFDESTRUCT: the recipient stays on the stack
stepSELFDESTRUCT(ws, ms, sub, env) ==
    LET address == st(ms, 0)
        a == env.currentAddress
        moved ==
            IF ~hasAccount(ws, address) \/ ws[a].balance = 0
            THEN deleteAccount(ws, address)
            ELSE IF address # a
            THEN [ws EXCEPT ![address].balance = @ + ws[a].balance]
            ELSE [ws EXCEPT ![address].balance = 0]
        emptied == IF hasAccount(moved, a) THEN [moved EXCEPT ![a].balance = 0] ELSE moved
    IN  IF ~hasAccount(ws, a)
        THEN StepThrew(deleteAccount(ws, address), ms,
                 [sub EXCEPT !.selfDestructAccounts = Append(@, a),
                             !.accessedAccounts = Append(@, address)])
        ELSE StepResult(emptied, ms,
                [sub EXCEPT !.selfDestructAccounts = Append(@, a),
                            !.accessedAccounts = Append(@, address)])

\* O(sigma, mu, A, I): the gas and, but for the jumps, pc are left to the cycle
\* memory after memory[memOffset + i] = code[codeOffset + i], or 0 past the
\* end of the code, for i < size; memory is a Uint8Array and does not grow
copyCode(memory, code, memOffset, codeOffset, size) ==
    [j \in 1..Len(memory) |->
        IF j - 1 >= memOffset /\ j - 1 < memOffset + size
        THEN IF codeOffset + (j - 1 - memOffset) < Len(code)
             THEN code[codeOffset + (j - 1 - memOffset) + 1] ELSE 0
        ELSE memory[j]]

step(oldWorldState, oldMachineState, oldSubState, env) ==
    LET opcode == getOpcode(oldMachineState, env)
        ws == oldWorldState
        ms == oldMachineState
        sub == oldSubState
    IN  CASE opcode = op.BALANCE ->
                StepResult(ws,
                    [ms EXCEPT !.stack = unshift(shift(@, 1),
                        IF hasAccount(ws, st(ms, 0)) THEN ws[st(ms, 0)].balance ELSE 0)],
                    [sub EXCEPT !.accessedAccounts = Append(@, st(ms, 0))])
          [] opcode = op.EXTCODESIZE ->
                StepResult(ws,
                    [ms EXCEPT !.stack = unshift(shift(@, 1),
                        IF hasAccount(ws, st(ms, 0)) THEN Len(ws[st(ms, 0)].code) ELSE 0)],
                    sub)
          [] opcode = op.EXTCODECOPY ->
                StepResult(ws,
                    [ms EXCEPT !.stack = shift(@, 4),
                               !.memory = copyCode(@,
                                   IF hasAccount(ws, st(ms, 0)) THEN ws[st(ms, 0)].code ELSE <<>>,
                                   st(ms, 1), st(ms, 2), st(ms, 3)),
                               !.memoryWordCount = memoryExpansion(@, st(ms, 1), st(ms, 3))],
                    sub)
          [] opcode = op.EXTCODEHASH ->
                StepResult(ws,
                    [ms EXCEPT !.stack = unshift(shift(@, 1),
                        IF isAccountDead(ws, st(ms, 0)) THEN 0 ELSE ws[st(ms, 0)].codeHash)],
                    [sub EXCEPT !.accessedAccounts = Append(@, st(ms, 0))])
          [] opcode = op.PREVRANDAO ->
                \* environment.blockHeader.prevRandao: the environments of
                \* messageCall and createContract hold no block header
                IF "blockHeader" \in DOMAIN env
                THEN StepResult(ws,
                         [ms EXCEPT !.stack = unshift(@, env.blockHeader.prevRandao)], sub)
                ELSE StepThrew(ws, ms, sub)
          [] opcode = op.POP ->
                StepResult(ws, [ms EXCEPT !.stack = shift(@, 1)], sub)
          [] opcode = op.SLOAD ->
                StepResult(ws,
                    [ms EXCEPT !.stack = unshift(shift(@, 1),
                        IF hasSlot(ws, env.currentAddress, bytesToHexString(st(ms, 0)))
                        THEN ws[env.currentAddress].storage[bytesToHexString(st(ms, 0))]
                        ELSE 0)],
                    [sub EXCEPT !.accessedStorageKeys =
                        Append(@, <<env.currentAddress, st(ms, 0)>>)])
          [] opcode = op.SSTORE -> stepSSTORE(ws, ms, sub, env)
          [] opcode = op.JUMP ->
                StepResult(ws, [ms EXCEPT !.stack = shift(@, 1), !.pc = st(ms, 0)], sub)
          [] opcode = op.JUMPI ->
                StepResult(ws,
                    [ms EXCEPT !.stack = shift(@, 2),
                               !.pc = IF st(ms, 1) # 0 THEN st(ms, 0) ELSE @ + 1],
                    sub)
          [] opcode = op.PC ->
                StepResult(ws, [ms EXCEPT !.stack = unshift(@, ms.pc)], sub)
          [] opcode = op.GAS ->
                StepResult(ws, [ms EXCEPT !.stack = unshift(@, ms.availableGas)], sub)
          [] opcode = op.PUSH1 ->
                StepResult(ws,
                    [ms EXCEPT !.stack = unshift(@, getCodeByte(env, ms.pc + 1))], sub)
          [] opcode = op.DUP1 ->
                StepResult(ws, [ms EXCEPT !.stack = unshift(@, st(ms, 0))], sub)
          [] opcode = op.SWAP1 ->
                StepResult(ws,
                    [ms EXCEPT !.stack = <<st(ms, 1), st(ms, 0)>> \o shift(@, 2)], sub)
          [] opcode \in { op.LOG0, op.LOG1, op.LOG2, op.LOG3, op.LOG4 } ->
                stepLOG(ws, ms, sub, env, LogTopics(opcode))
          [] opcode = op.CREATE -> stepCREATE(ws, ms, sub, env)
          [] opcode = op.CALL -> stepCALL(ws, ms, sub, env, FALSE)
          [] opcode = op.CALLCODE -> stepCALL(ws, ms, sub, env, TRUE)
          [] opcode \in { op.RETURN, op.REVERT } ->
                StepResult(ws,
                    [ms EXCEPT !.stack = shift(@, 2),
                               !.memoryWordCount =
                                   memoryExpansion(ms.memoryWordCount, st(ms, 0), st(ms, 1)),
                               !.output = returnedData(ms)],
                    sub)
          [] opcode = op.SELFDESTRUCT -> stepSELFDESTRUCT(ws, ms, sub, env)
          [] OTHER -> StepResult(ws, ms, sub)

\* the three objects passed to step, after the call: step works on clones
givenObjects(oldWorldState, oldMachineState, oldSubState, r) ==
    [worldState |-> givenAfter(structuredClone(oldWorldState), oldWorldState,
                               r.worldState),
     machineState |-> givenAfter(structuredClone(oldMachineState), oldMachineState,
                                 r.machineState),
     subState |-> givenAfter(structuredClone(oldSubState), oldSubState, r.subState)]

stepGiven(oldWorldState, oldMachineState, oldSubState, env) ==
    givenObjects(oldWorldState, oldMachineState, oldSubState,
                 step(oldWorldState, oldMachineState, oldSubState, env))

-----------------------------------------------------------------------------
(* The calls observed: codes, world states and arguments *)

\* the accounts of the world: the called contract, the contract it calls,
\* the sender of the observed call, and an address that holds no account
Address == [ Contract |-> 10, Callee |-> 11, Sender |-> 20, Absent |-> 12 ]
Contract == Address.Contract
Callee == Address.Callee
Sender == Address.Sender
Absent == Address.Absent

push(x) == <<op.PUSH1, x>>

\* the seven arguments of CALL and CALLCODE but the gas, pushed last first
callArguments(to, value) ==
    push(0) \o push(0) \o push(0) \o push(0) \o push(value) \o push(to)

\* codes without a call
PlainCodes ==
    { <<>>,
      push(7) \o <<op.DUP1, op.SWAP1, op.POP, op.PC, op.GAS, op.POP, op.STOP>>,
      <<op.POP>>,
      <<op.SWAP1>>,
      <<op.INVALID>>,
      <<12>>,
      push(3) \o <<op.JUMP, op.JUMPDEST, op.STOP>>,
      push(4) \o <<op.JUMP, op.STOP, op.STOP, op.JUMPDEST, op.STOP>>,
      push(200) \o <<op.JUMP>>,
      <<op.JUMP>>,
      push(1) \o push(6) \o <<op.JUMPI, op.INVALID, op.JUMPDEST, op.STOP>>,
      push(0) \o push(200) \o <<op.JUMPI, op.STOP>>,
      push(1) \o push(5) \o <<op.JUMPI, op.STOP, op.JUMPDEST>>,
      push(1) \o push(0) \o <<op.SSTORE, op.STOP>>,
      push(0) \o <<op.SLOAD, op.STOP>>,
      push(0) \o <<op.SLOAD>> \o push(0) \o <<op.SLOAD, op.STOP>>,
      push(Callee) \o <<op.BALANCE>> \o push(Callee) \o <<op.BALANCE, op.STOP>>,
      push(5) \o push(1) \o <<op.SSTORE>> \o push(0) \o push(1) \o <<op.SSTORE, op.STOP>>,
      push(Callee) \o <<op.BALANCE, op.STOP>>,
      push(0) \o push(0) \o <<op.LOG0, op.STOP>>,
      push(1) \o push(0) \o push(0) \o <<op.LOG1, op.STOP>>,
      push(2) \o push(1) \o push(0) \o push(0) \o <<op.LOG2, op.STOP>>,
      push(3) \o push(2) \o push(1) \o push(0) \o push(0) \o <<op.LOG3, op.STOP>>,
      push(4) \o push(3) \o push(2) \o push(1) \o push(0) \o push(0) \o <<op.LOG4, op.STOP>>,
      push(0) \o push(0) \o <<op.LOG0>> \o <<op.INVALID>>,
      push(0) \o push(0) \o <<op.LOG0>> \o push(0) \o push(0) \o <<op.REVERT>>,
      push(0) \o push(0) \o <<op.REVERT>>,
      push(0) \o push(0) \o <<op.RETURN>>,
      push(0) \o push(0) \o push(0) \o <<op.CREATE, op.STOP>>,
      push(0) \o push(0) \o push(200) \o <<op.CREATE, op.STOP>>,
      push(0) \o push(0) \o push(0) \o push(0) \o <<op.CREATE2, op.STOP>>,
      push(Callee) \o <<op.SELFDESTRUCT>>,
      push(Absent) \o <<op.SELFDESTRUCT>>,
      push(Contract) \o <<op.SELFDESTRUCT>>,
      push(0) \o push(0) \o push(0) \o push(0) \o push(0) \o push(0)
          \o <<op.DELEGATECALL, op.STATICCALL, op.STOP>> }

\* a loop that gas alone ends, and a loop that fills the stack
LoopCode == <<op.JUMPDEST>> \o push(0) \o <<op.JUMP>>
StackCode ==
    <<op.JUMPDEST, op.PC, op.PC, op.PC, op.PC, op.PC, op.PC, op.PC, op.PC>>
        \o push(0) \o <<op.JUMP>>

\* codes that call: the gas argument is a byte or all the gas left
CallingCodes ==
    { callArguments(to, value) \o gas \o <<w, op.STOP>> :
        to \in { Callee }, value \in { 0, 1, 200 },
        gas \in { push(255), <<op.GAS>> }, w \in { op.CALL, op.CALLCODE } }
    \cup { callArguments(Absent, 0) \o push(255) \o <<op.CALL, op.STOP>> }

\* codes of the called contract's callee
CalleeCodes ==
    { <<>>,
      <<op.INVALID>>,
      push(0) \o push(0) \o <<op.LOG0, op.INVALID>>,
      push(0) \o push(0) \o <<op.LOG0>> \o push(0) \o push(0) \o <<op.REVERT>>,
      push(0) \o push(0) \o <<op.LOG0, op.STOP>> }

\* an account; a storage record holds its slots under the keys SSTORE writes
contractAccount(balance, code) ==
    [nonce |-> 1, balance |-> balance, storage |-> setSlot(<<>>, bytesToHexString(0), 5),
     codeHash |-> KEC(code), code |-> code]

\* sigma of a call of the contract of the given code
World(code, calleeCode) ==
    setAccount(setAccount(setAccount(<<>>,
        Contract, contractAccount(10, code)),
        Callee, contractAccount(0, calleeCode)),
        Sender, [nonce |-> 1, balance |-> 100, storage |-> <<>>,
                 codeHash |-> KEC(<<>>), code |-> <<>>])

\* A0
emptyAccruedSubState ==
    [selfDestructAccounts |-> <<>>, logs |-> <<>>, touchedAccounts |-> <<>>,
     refund |-> 0, accessedAccounts |-> precompiledAddresses,
     accessedStorageKeys |-> <<>>]

\* the arguments of a message call from Sender to Contract
Call(code, calleeCode, gas, value, depth, price, allow) ==
    [worldState |-> World(code, calleeCode), subState |-> emptyAccruedSubState,
     sender |-> Sender, origin |-> Sender, recipient |-> Contract,
     codeAddress |-> Contract, availableGas |-> gas, transferredValue |-> value,
     apparentValue |-> value, effectiveGasPrice |-> price, data |-> <<>>,
     callStackDepth |-> depth, allowModifications |-> allow]

Calls ==
    { Call(code, <<>>, gas, value, 0, 0, allow) :
        code \in PlainCodes, gas \in { 0, LowGas, MidGas, MaxGas },
        value \in { 0, 1 }, allow \in BOOLEAN }
    \cup { Call(LoopCode, <<>>, gas, 0, 0, 0, TRUE) : gas \in { LowGas, MidGas } }
    \cup { Call(StackCode, <<>>, MaxGas, 0, 0, 0, TRUE) }
    \cup { Call(code, calleeCode, gas, 0, depth, price, allow) :
            code \in CallingCodes, calleeCode \in CalleeCodes,
            gas \in { MidGas, MaxGas }, depth \in { 0, CallDepthLimit },
            price \in { 0, 1 }, allow \in BOOLEAN }
    \cup { Call(push(0) \o push(0) \o push(0) \o <<op.CREATE, op.STOP>>, <<>>, MaxGas,
                 0, CallDepthLimit, 0, allow) : allow \in BOOLEAN }

-----------------------------------------------------------------------------
(* The observed call, cycle by cycle *)

\* sigma1 of the observed call, the checkpoint of its frame
transitional ==
    firstTransitionalState(args.worldState, args.sender, args.recipient,
                           args.transferredValue)

frameEnvironment ==
    messageCallEnvironment(transitional.state, args.sender, args.origin, args.recipient,
        args.codeAddress, args.apparentValue, args.effectiveGasPrice, args.data,
        args.callStackDepth, args.allowModifications)

Objects(ws, ms, sub) == [worldState |-> ws, machineState |-> ms, subState |-> sub]

\* CREATE reaches createContract
createStarts(ws, ms, env) ==
    /\ hasAccount(ws, env.currentAddress)
    /\ st(ms, 0) <= ws[env.currentAddress].balance
    /\ env.callDepth < CallDepthLimit

\* the objects createContract passes to contractCreationSubState and to
\* contractCreationWorldState, before and after these calls
creationObjects(ws, ms, sub, env) ==
    LET createWorldState == [ws EXCEPT ![env.currentAddress].nonce = @ + 1]
        a == contractCreationAddress(env.currentAddress, 0, <<>>, <<>>)
    IN  [called |-> TRUE,
         passed |-> [worldState |-> createWorldState, subState |-> sub],
         given |-> [worldState |-> contractCreationWorldStateGiven(env.currentAddress, a,
                                       st(ms, 0), createWorldState),
                    subState |-> contractCreationSubStateGiven(a, sub)],
         returned |-> contractCreationSubState(a, sub)]

noCreation ==
    [called |-> FALSE,
     passed |-> [worldState |-> <<>>, subState |-> emptyAccruedSubState],
     given |-> [worldState |-> <<>>, subState |-> emptyAccruedSubState],
     returned |-> emptyAccruedSubState]

Init ==
    /\ args \in Calls
    /\ status = "Idle"
    /\ worldState = args.worldState
    /\ machineState = initialMachineState(args.availableGas)
    /\ subState = args.subState
    /\ environment = [frameEnvironment EXCEPT !.code = <<>>]
    /\ prev = Objects(worldState, machineState, subState)
    /\ last = [cycled |-> FALSE, opcode |-> 0, halt |-> "Running", kind |-> "none",
               cost |-> 0,
               given |-> prev, creation |-> noCreation]
    /\ result = CallThrew

\* messageCall up to the start of the execution
BeginMessageCall ==
    /\ status = "Idle"
    /\ status' = IF transitional.threw \/ ~hasAccount(transitional.state, args.codeAddress)
                 THEN "Threw" ELSE "Running"
    /\ worldState' = transitional.state
    /\ environment' = frameEnvironment
    /\ prev' = Objects(worldState, machineState, subState)
    /\ last' = [last EXCEPT !.given.worldState =
                    firstTransitionalStateGiven(args.worldState, args.sender,
                        args.recipient, args.transferredValue)]
    /\ UNCHANGED <<args, machineState, subState, result>>

\* the frame after a cycle c
Observe(c) ==
    LET w == getOpcode(machineState, environment)
        stepped == Z(machineState, environment) = "none"
    IN  /\ status' = c.status
        /\ worldState' = c.worldState
        /\ machineState' = c.machineState
        /\ subState' = c.subState
        /\ prev' = Objects(worldState, machineState, subState)
        /\ last' = [cycled |-> TRUE, opcode |-> w, halt |-> c.status, kind |-> c.kind,
                    cost |-> c.cost,
                    given |-> IF stepped
                              THEN stepGiven(worldState, machineState, subState,
                                             environment)
                              ELSE Objects(worldState, machineState, subState),
                    creation |->
                        IF stepped /\ w = op.CREATE
                           /\ createStarts(worldState, machineState, environment)
                        THEN creationObjects(worldState, machineState, subState,
                                             environment)
                        ELSE noCreation]

\* one cycle of the frame of the observed call
ExecuteCycle ==
    /\ status = "Running"
    /\ Observe(Cycle(transitional.state, worldState, machineState, subState, environment))
    /\ UNCHANGED <<args, environment, result>>

\* messageCall from the end of the execution
ReturnFromCall ==
    /\ status \in { "HaltedNormal", "HaltedRevert", "HaltedException" }
    /\ result' = messageCallResult(args.worldState, args.subState,
                     executionResult(status, worldState, machineState, subState))
    /\ status' = "Returned"
    /\ UNCHANGED <<args, worldState, machineState, subState, environment, prev, last>>

Next == BeginMessageCall \/ ExecuteCycle \/ ReturnFromCall

Spec == Init /\ [][Next]_vars

\* the cycles of the observed frame are those of execute inside messageCall
ReturnsWhatMessageCallReturns ==
    status = "Returned" /\ args.worldState[Contract].code \notin { LoopCode, StackCode } =>
        result = messageCall(args.worldState, args.subState, args.sender, args.origin,
                     args.recipient, args.codeAddress, args.availableGas,
                     args.transferredValue, args.apparentValue, args.effectiveGasPrice,
                     args.data, args.callStackDepth, args.allowModifications)

-----------------------------------------------------------------------------
(* Properties *)

Halted == { "HaltedNormal", "HaltedRevert", "HaltedException" }

\* the last cycle applied its step
Stepped == last.cycled /\ last.halt \in { "Running", "HaltedNormal", "HaltedRevert" }

\* C1: when the code run by messageCall fails (the execution returns no world
\* state), messageCall returns the world state and the sub-state it was given,
\* with status 0: the debit, the credit and the callee's effects are not in it.
C1_FailedCallReturnsGivenState ==
    status = "Returned" /\ last.halt \in { "HaltedRevert", "HaltedException" } =>
        /\ result.worldState = args.worldState
        /\ result.subState = args.subState
        /\ result.status = 0

\* a failed call that had moved value and whose callee had logged
C1_Witness ==
    /\ status = "Returned"
    /\ last.halt = "HaltedException"
    /\ args.transferredValue > 0
    /\ worldState[Contract].balance = args.worldState[Contract].balance + 1
    /\ Len(subState.logs) = 1
    /\ result.status = 0
    /\ result.worldState = args.worldState

GasForwarding == { op.CALL, op.CALLCODE, op.CREATE }

\* the last cycle found the gas short of the cost: nothing of the step is applied
OutOfGasHalt ==
    last.cycled /\ last.kind = "out-of-gas" =>
        /\ prev.machineState.availableGas < last.cost
        /\ last.halt = "HaltedException"
        /\ worldState = prev.worldState
        /\ subState = prev.subState
        /\ machineState.stack = prev.machineState.stack
        /\ machineState.memory = prev.machineState.memory
        /\ machineState.availableGas = 0

\* C2, as the claim states it: every applied step lowers availableGas by exactly its cost.
C2_EveryStepChargesExactlyItsCost ==
    /\ Stepped =>
        /\ prev.machineState.availableGas >= last.cost
        /\ machineState.availableGas = prev.machineState.availableGas - last.cost
    /\ OutOfGasHalt

\* C2, amended: a step is applied only when availableGas >= its cost; the step
\* of an opcode that forwards no gas (any but CALL, CALLCODE, CREATE) leaves
\* availableGas lowered by exactly that cost; when the gas is short the frame
\* halts exceptionally, nothing of the step is applied and all gas is consumed.
C2_StepChargesItsCost ==
    /\ Stepped =>
        /\ prev.machineState.availableGas >= last.cost
        /\ last.opcode \notin GasForwarding =>
               machineState.availableGas = prev.machineState.availableGas - last.cost
    /\ OutOfGasHalt

\* a LOG1 step that was charged, and a step refused for want of gas
C2_Witness ==
    /\ Stepped
    /\ last.opcode = op.LOG1
    /\ last.cost = cost.log + cost.logTopic
    /\ machineState.availableGas = prev.machineState.availableGas - last.cost
    /\ Len(subState.logs) = 1

\* C3: a message call whose code halts by REVERT with g' gas left returns
\* remainingGas g' to its caller, with status 0 and the given world state.
C3_RevertReturnsUnusedGas ==
    status = "Returned" /\ last.halt = "HaltedRevert" =>
        /\ result.remainingGas = machineState.availableGas
        /\ result.status = 0
        /\ result.worldState = args.worldState

\* the last cycle applied a CALL or CALLCODE step
CallStepped == Stepped /\ last.opcode \in { op.CALL, op.CALLCODE }

\* the message call of the last CALL or CALLCODE step, recomputed
lastSubCall ==
    subCall(prev.worldState, prev.machineState, prev.subState, environment,
            last.opcode = op.CALLCODE)

\* the last CALL or CALLCODE step was refused: value above the balance, or depth at the limit
CallRefused ==
    \/ prev.machineState.stack[3] > prev.worldState[environment.currentAddress].balance
    \/ environment.callDepth >= CallDepthLimit

\* C4, as the claim states it: after a failed sub-call the world state and the
\* sub-state of the caller are those before the step, and 0 is pushed.
C4_FailedSubCallLeavesCallerUntouched ==
    CallStepped /\ machineState.stack[1] = 0 =>
        /\ worldState = prev.worldState
        /\ subState = prev.subState

\* C4, amended: after a failed sub-call 0 is pushed and the world state of the
\* caller is the one before the step; its sub-state is the one before the step
\* when the call was refused (value above the balance, depth at the limit), and
\* the one before the step with the called address added to the accessed
\* accounts when the call was started and failed.
C4_FailedSubCall ==
    CallStepped =>
        /\ CallRefused \/ lastSubCall.status = 0 => machineState.stack[1] = 0
        /\ CallRefused => worldState = prev.worldState /\ subState = prev.subState
        /\ ~CallRefused /\ machineState.stack[1] = 0 =>
               /\ worldState = prev.worldState
               /\ subState = [prev.subState EXCEPT !.accessedAccounts =
                                 Append(@, prev.machineState.stack[2])]

\* a sub-call that was started, logged and failed
C4_Witness ==
    /\ CallStepped
    /\ ~CallRefused
    /\ machineState.stack[1] = 0
    /\ args.worldState[Callee].code = push(0) \o push(0) \o <<op.LOG0, op.INVALID>>
    /\ subState.accessedAccounts = Append(prev.subState.accessedAccounts, Callee)

StateModifying ==
    { op.SSTORE, op.LOG0, op.LOG1, op.LOG2, op.LOG3, op.LOG4,
      op.CREATE, op.CREATE2, op.SELFDESTRUCT }

\* C5: in a frame whose environment has canModifyState = FALSE, a cycle of
\* SSTORE, LOG0..LOG4, CREATE, CREATE2 or SELFDESTRUCT is an exceptional halt
\* that leaves the storage, the accounts, the logs and the self-destruct set
\* as they were.
C5_StaticFrameModifiesNothing ==
    last.cycled /\ ~environment.canModifyState /\ last.opcode \in StateModifying =>
        /\ last.halt = "HaltedException"
        /\ worldState = prev.worldState
        /\ subState.logs = prev.subState.logs
        /\ subState.selfDestructAccounts = prev.subState.selfDestructAccounts

\* a LOG2 with its four words on the stack, halted in a static frame
C5_Witness ==
    /\ last.cycled
    /\ ~environment.canModifyState
    /\ last.opcode = op.LOG2
    /\ Len(prev.machineState.stack) = 4
    /\ prev.machineState.availableGas > cost.log + 2 * cost.logTopic
    /\ last.kind = "static-write-violation"
    /\ status = "HaltedException"

\* C6: a frame started in state Running reaches HaltedNormal, HaltedRevert or
\* HaltedException: as long as it has not, it has a next cycle, and no cycle
\* leaves it anywhere else.
C6_FrameHalts ==
    /\ status = "Running" => ENABLED ExecuteCycle
    /\ last.cycled => status \in { "Running", "Returned" } \cup Halted

\* C7: availableGas of the machine state is never negative.
C7_GasNeverNegative == machineState.availableGas >= 0

\* the last cycle was of a JUMP, or of a JUMPI whose condition is not zero,
\* with its operands on the stack
Jumping ==
    /\ last.cycled
    /\ \/ last.opcode = op.JUMP /\ Len(prev.machineState.stack) >= 1
       \/ /\ last.opcode = op.JUMPI
          /\ Len(prev.machineState.stack) >= 2
          /\ prev.machineState.stack[2] # 0

\* the code byte at offset t is the JUMPDEST opcode
IsJumpDest(t) == t < Len(environment.code) /\ environment.code[t + 1] = op.JUMPDEST

\* C8: a JUMP, or a JUMPI whose condition is not zero, sets pc to its target
\* only when the code byte at the target is JUMPDEST; for any other target the
\* frame halts exceptionally and pc stays where it was.
C8_JumpsLandOnJumpDest ==
    Jumping =>
        IF IsJumpDest(prev.machineState.stack[1])
        THEN \/ last.kind = "out-of-gas"
             \/ status = "Running" /\ machineState.pc = prev.machineState.stack[1]
        ELSE /\ last.halt = "HaltedException"
             /\ last.kind = "invalid-jump-destination"
             /\ machineState.pc = prev.machineState.pc

\* a jump to the byte before a JUMPDEST, refused
C8_Witness ==
    /\ Jumping
    /\ last.opcode = op.JUMP
    /\ ~IsJumpDest(prev.machineState.stack[1])
    /\ IsJumpDest(prev.machineState.stack[1] + 1)
    /\ status = "HaltedException"
    /\ machineState.pc = prev.machineState.pc

\* the stack demand of the last cycle's opcode is not met
StackDemandUnmet ==
    /\ last.cycled
    /\ last.opcode \in DOMAIN instructions
    /\ \/ Len(prev.machineState.stack) < instructions[last.opcode].pop
       \/ Len(prev.machineState.stack) - instructions[last.opcode].pop
              + instructions[last.opcode].push > 1024

\* C9: a stack holding fewer items than the opcode pops, or that would hold
\* more than 1024 items after its pushes, makes the frame halt exceptionally
\* with the stack untouched; the stack holds between 0 and 1024 items in
\* every reachable state.
C9_StackDemandChecked ==
    /\ Len(machineState.stack) <= 1024
    /\ StackDemandUnmet =>
           /\ last.halt = "HaltedException"
           /\ machineState.stack = prev.machineState.stack

\* a push refused on a full stack
C9_Witness ==
    /\ StackDemandUnmet
    /\ Len(prev.machineState.stack) = 1024
    /\ instructions[last.opcode].push = 1
    /\ last.kind = "stack-overflow"
    /\ Len(machineState.stack) = 1024

ForwardingCycle ==
    /\ last.cycled
    /\ last.opcode \in GasForwarding
    /\ last.kind = "none"
    /\ last.halt # "HaltedException"

\* C11: a CALL, CALLCODE or CREATE step in a frame of callDepth 1024 starts no
\* sub-frame, pushes 0 and leaves the world state unchanged, and the caller
\* keeps running; a sub-frame is started at a callDepth of 1024 at most.
C11_CallDepthBounded ==
    /\ environment.callDepth <= 1024
    /\ ForwardingCycle /\ environment.callDepth = 1024 =>
           /\ last.halt = "Running"
           /\ machineState.stack[1] = 0
           /\ worldState = prev.worldState
           /\ subState = prev.subState
           /\ ~last.creation.called
    /\ CallStepped /\ ~CallRefused => environment.callDepth + 1 <= 1024
    /\ last.creation.called => environment.callDepth + 1 <= 1024

\* a CALL refused for its depth alone, which the caller survives
C11_Witness ==
    /\ ForwardingCycle
    /\ last.opcode = op.CALL
    /\ environment.callDepth = 1024
    /\ prev.machineState.stack[3] <= prev.worldState[environment.currentAddress].balance
    /\ status = "Running"
    /\ machineState.stack[1] = 0

\* results of the execution of an init code: outputs that are empty, short,
\* led by the byte 0xef, or one byte longer than the largest code
ExecutionResults ==
    { CallResult(last.creation.passed.worldState, gas, last.creation.returned, 1, output) :
        gas \in { 0, 199, 200, 399, 400, MaxGas },
        output \in { <<>>, <<1>>, <<239>>, <<1, 2>>, [i \in 1..(24576 + 1) |-> 1] } }

\* the failures of a creation the claim lists
CreationFails(exec) ==
    \/ Len(exec.output) > 24576
    \/ (Len(exec.output) > 0 /\ exec.output[1] = 239)
    \/ exec.remainingGas < 200 * Len(exec.output)

\* what createContract makes of a failed execution, for the creation of the last cycle
FailedCreationResult(exec) ==
    LET given == last.creation.passed.worldState
        a == contractCreationAddress(environment.currentAddress, 0, <<>>, <<>>)
        r == createContractResult(given, last.creation.returned, a, exec)
    IN  /\ r.status = 0
        /\ r.remainingGas = 0
        /\ r.worldState = given
        /\ ~hasAccount(given, a) => ~hasAccount(r.worldState, a)

\* equations (107)-(112) alone fail the creations the claim lists
CreationResultChecked ==
    last.creation.called =>
        \A exec \in ExecutionResults : CreationFails(exec) => FailedCreationResult(exec)

\* C12: createContract fails whenever the output of the init code is longer
\* than 24576 bytes, or starts with 0xef, or the gas left is below 200 x the
\* output length; a failed creation returns status 0, remainingGas 0 and the
\* world state it was given: createContract returns, and returns that.
C12_FailedCreationReturnsGivenState ==
    last.creation.called =>
        /\ last.halt # "Threw"
        /\ \A exec \in ExecutionResults : CreationFails(exec) => FailedCreationResult(exec)

\* the sum of the balances of the accounts of a world state
RECURSIVE SumOfBalances(_, _)
SumOfBalances(state, addresses) ==
    IF addresses = {} THEN 0
    ELSE LET a == CHOOSE x \in addresses : TRUE
         IN  state[a].balance + SumOfBalances(state, addresses \ {a})

TotalBalance(state) == SumOfBalances(state, DOMAIN state)

\* the balance held at an address, 0 when no account is there
balanceAt(state, a) == IF hasAccount(state, a) THEN state[a].balance ELSE 0

\* every account but those at the addresses given is the same in both states
SameBut(before, after, addresses) ==
    /\ (DOMAIN after) \ addresses = (DOMAIN before) \ addresses
    /\ \A x \in (DOMAIN before) \ addresses : after[x] = before[x]

\* what the claim C13 states of sigma* = contractCreationWorldState(sender, a, value, sigma)
CreationWorldStateAsClaimed(sender, a, value, sigma, r) ==
    /\ ~r.threw
    /\ hasAccount(r.state, a)
    /\ r.state[a] = newAccount(1, value + balanceAt(sigma, a))
    /\ hasAccount(r.state, sender)
    /\ r.state[sender].balance = sigma[sender].balance - value
    /\ SameBut(sigma, r.state, { sender, a })
    /\ TotalBalance(r.state) = TotalBalance(sigma)

\* C13: contractCreationWorldState gives the new account nonce 1, empty code
\* and storage and the balance value + the balance held at its address before;
\* it lowers the sender's balance by value and keeps the sender; every other
\* account and the sum of all balances are unchanged.
C13_CreationWorldState ==
    last.creation.called /\ prev.machineState.stack[1] <= prev.worldState[environment.currentAddress].balance =>
        CreationWorldStateAsClaimed(
            environment.currentAddress,
            contractCreationAddress(environment.currentAddress, 0, <<>>, <<>>),
            prev.machineState.stack[1],
            last.creation.passed.worldState,
            contractCreationWorldState(environment.currentAddress,
                contractCreationAddress(environment.currentAddress, 0, <<>>, <<>>),
                prev.machineState.stack[1], last.creation.passed.worldState))

\* a salt of 32 bytes
Salt == [i \in 1..32 |-> 7]

\* C14: the address of a created contract is 20 bytes long; for CREATE it is
\* the last 20 bytes of KEC(RLP([sender, nonce])), for CREATE2 the last 20
\* bytes of KEC(0xff . sender . salt . KEC(initCode)); two senders with the
\* same nonce get different CREATE addresses.
C14_CreatedAddress ==
    last.creation.called =>
        /\ Len(contractCreationAddressBytes(environment.currentAddress,
                prev.worldState[environment.currentAddress].nonce, <<>>, <<>>)) = 20
        /\ Len(contractCreationAddressBytes(environment.currentAddress,
                prev.worldState[environment.currentAddress].nonce, Salt, <<>>)) = 20
        /\ contractCreationAddressBytes(environment.currentAddress,
                prev.worldState[environment.currentAddress].nonce, <<>>, <<>>)
           = slice(digest(KEC(rlp(<<environment.currentAddress,
                 prev.worldState[environment.currentAddress].nonce>>))), 12, 32)
        /\ contractCreationAddressBytes(environment.currentAddress,
                prev.worldState[environment.currentAddress].nonce, Salt, <<>>)
           = slice(digest(KEC(<<255, environment.currentAddress, Salt, KEC(<<>>)>>)), 12, 32)
        /\ \A s \in (DOMAIN prev.worldState) \ { environment.currentAddress } :
               contractCreationAddressBytes(s,
                   prev.worldState[environment.currentAddress].nonce, <<>>, <<>>)
               # contractCreationAddressBytes(environment.currentAddress,
                   prev.worldState[environment.currentAddress].nonce, <<>>, <<>>)

\* what the claim C15 states of t = firstTransitionalState(sigma, s, r, v)
TransitionalStateAsClaimed(sigma, s, r, v, t) ==
    /\ ~t.threw
    /\ s # r => /\ balanceAt(t.state, s) = sigma[s].balance - v
                /\ balanceAt(t.state, r) = balanceAt(sigma, r) + v
    /\ s = r => t.state[s].balance = sigma[s].balance
    /\ ~hasAccount(sigma, r) /\ v # 0 =>
           hasAccount(t.state, r) /\ t.state[r] = newAccount(0, v)
    /\ v = 0 => DOMAIN t.state = DOMAIN sigma
    /\ SameBut(sigma, t.state, { s, r })
    /\ TotalBalance(t.state) = TotalBalance(sigma)

\* the last cycle started the message call of a CALL or CALLCODE
SubCallStarted ==
    /\ ForwardingCycle
    /\ last.opcode \in { op.CALL, op.CALLCODE }
    /\ ~CallRefused

\* the recipient of the message call of the last cycle
subCallRecipient ==
    IF last.opcode = op.CALLCODE THEN environment.currentAddress
    ELSE prev.machineState.stack[2]

\* C15: firstTransitionalState lowers the balance of the sender by v and raises
\* that of the recipient by v, creating the recipient with nonce 0, empty code
\* and balance v when it is absent and v # 0; it creates no account when
\* v = 0, changes no other account and keeps the sum of all balances.
C15_TransitionalState ==
    /\ status # "Idle" =>
           TransitionalStateAsClaimed(args.worldState, args.sender, args.recipient,
               args.transferredValue, transitional)
    /\ SubCallStarted /\ environment.gasPrice <= prev.worldState[environment.currentAddress].balance =>
           TransitionalStateAsClaimed(prev.worldState, environment.currentAddress,
               subCallRecipient, environment.gasPrice,
               firstTransitionalState(prev.worldState, environment.currentAddress,
                   subCallRecipient, environment.gasPrice))

\* the last cycle computed the cost of a CALL or CALLCODE
CallCycle ==
    /\ last.cycled
    /\ last.opcode \in { op.CALL, op.CALLCODE }
    /\ last.kind \in { "none", "out-of-gas" }

\* the extra cost of a call of the given value to the given address, as the claim C16 states it
ExtraCostAsClaimed(state, sub, to, value) ==
    getAccessCost(to, sub)
        + (IF value # 0 THEN 9000 ELSE 0)
        + (IF isAccountDead(state, to) /\ value # 0 THEN 25000 ELSE 0)

\* C16: the extra cost of CALL and CALLCODE is the access cost of the target,
\* plus 9000 when the value is non-zero, plus 25000 when the target is dead
\* and the value is non-zero.
C16_ExtraCost ==
    CallCycle =>
        extraCost(prev.worldState, prev.machineState, prev.subState)
            = ExtraCostAsClaimed(prev.worldState, prev.subState,
                  prev.machineState.stack[2], prev.machineState.stack[3])

\* the last cycle computed the cost of an SSTORE
SStoreCycle ==
    /\ last.cycled
    /\ last.opcode = op.SSTORE
    /\ last.kind \in { "none", "out-of-gas" }

\* the value of a slot as SLOAD reads it: 0 when the record does not hold it
storageValue(state, a, key) ==
    IF hasSlot(state, a, bytesToHexString(key))
    THEN state[a].storage[bytesToHexString(key)] ELSE 0

\* the slot (a, key) is in the accessed storage keys
slotAccessed(sub, a, key) == includes(sub.accessedStorageKeys, <<a, key>>)

\* the charge of the claim C17 for the values v0, v, v1 (original, current,
\* new); the claim gives no charge when v0 = v # 0 and v1 is neither v nor 0
SStoreChargeAsClaimed(charge, v0, v, v1, warm) ==
    LET access == IF warm THEN 0 ELSE 2100
    IN  /\ v = v1 \/ v0 # v => charge = 100 + access
        /\ v # v1 /\ v0 = v /\ v0 = 0 => charge = 20000 + access
        /\ v # v1 /\ v0 = v /\ v0 # 0 /\ v1 = 0 => charge = 2900 + access

\* C17: the SSTORE charge is 100 when v = v' or v0 # v, 20000 when
\* v0 = v = 0 and v' # 0, 2900 when v0 = v # 0 and v' = 0, plus 2100 when the
\* slot is cold.
C17_SStoreCharge ==
    SStoreCycle =>
        /\ ~sstoreCostThrows(transitional.state, prev.worldState, prev.machineState,
                             environment)
        /\ SStoreChargeAsClaimed(
               sstoreCost(transitional.state, prev.worldState, prev.machineState,
                          prev.subState, environment),
               storageValue(transitional.state, environment.currentAddress,
                            prev.machineState.stack[1]),
               storageValue(prev.worldState, environment.currentAddress,
                            prev.machineState.stack[1]),
               prev.machineState.stack[2],
               slotAccessed(prev.subState, environment.currentAddress,
                            prev.machineState.stack[1]))

\* C18: in one frame, on a slot whose value at the checkpoint is 0, an SSTORE
\* of 5 adds nothing to the refund counter, and a following SSTORE of 0 to the
\* same slot costs the warm access 100 and adds 19900 to the refund counter.
C18_SStoreSetThenClear ==
    /\ SStoreCycle
    /\ storageValue(transitional.state, environment.currentAddress,
                    prev.machineState.stack[1]) = 0
    => /\ Stepped
       /\ /\ prev.machineState.stack[2] = 5
          /\ storageValue(prev.worldState, environment.currentAddress,
                          prev.machineState.stack[1]) = 0
          => subState.refund = prev.subState.refund
       /\ /\ prev.machineState.stack[2] = 0
          /\ storageValue(prev.worldState, environment.currentAddress,
                          prev.machineState.stack[1]) = 5
          => /\ last.cost = 100
             /\ subState.refund = prev.subState.refund + 19900

\* C19: the SELFDESTRUCT charge is 5000, plus 2600 when the recipient is not
\* in the accessed accounts, plus 25000 exactly when the recipient is dead and
\* the balance of the self-destructing account is not zero.
C19_SelfDestructCharge ==
    /\ last.cycled
    /\ last.opcode = op.SELFDESTRUCT
    /\ last.kind \in { "none", "out-of-gas" }
    => selfDestructCost(prev.worldState, prev.machineState, prev.subState, environment)
           = 5000
             + (IF includes(prev.subState.accessedAccounts, prev.machineState.stack[1])
                THEN 0 ELSE 2600)
             + (IF /\ isAccountDead(prev.worldState, prev.machineState.stack[1])
                   /\ prev.worldState[environment.currentAddress].balance # 0
                THEN 25000 ELSE 0)

\* the gas left by a CALL or CALLCODE is the gas before it, less the gas
\* forwarded, plus the gas returned; the gas before it is read as that before
\* the cycle, or as that left by the cycle's charge, which holds the forwarded
\* gas already
GasAfterCall(before, charge, forwarded, returned, after) ==
    \/ after = before - forwarded + returned
    \/ after = before - charge - forwarded + returned
    \/ after = before - charge + returned

\* C20: after a CALL or CALLCODE step the availableGas of the caller is its
\* value before the step, minus the gas forwarded to the callee, plus the gas
\* the callee returned; when no sub-frame is started the whole of the
\* forwarded gas comes back.
C20_CallGasAccounting ==
    CallStepped =>
        GasAfterCall(prev.machineState.availableGas, last.cost,
            callGasCost(prev.worldState, prev.machineState, prev.subState),
            IF CallRefused
            THEN callGasCost(prev.worldState, prev.machineState, prev.subState)
            ELSE lastSubCall.remainingGas,
            machineState.availableGas)

-----------------------------------------------------------------------------
(* The functions of the library, applied on their own *)

\* the accounts the functions are applied to
Accounts ==
    { [nonce |-> n, balance |-> b, storage |-> <<>>, codeHash |-> KEC(code), code |-> code] :
        n \in { 0, 1 }, b \in { 0, 1 }, code \in { <<>>, <<op.STOP>> } }

\* the world states of at most one account, at Contract
SmallWorlds == { <<>> } \cup { setAccount(<<>>, Contract, acc) : acc \in Accounts }

\* before any function is applied; the frame's variables are not in use
LibraryInit ==
    /\ status = "Idle"
    /\ args = <<>>
    /\ result = <<>>
    /\ worldState = <<>>
    /\ machineState = initialMachineState(0)
    /\ subState = emptyAccruedSubState
    /\ environment = <<>>
    /\ prev = <<>>
    /\ last = <<>>

\* the function fn is applied to input and returns output
Applied(fn, input, output) ==
    /\ status = "Idle"
    /\ status' = "Applied"
    /\ args' = [fn |-> fn, input |-> input]
    /\ result' = output
    /\ UNCHANGED <<worldState, machineState, subState, environment, prev, last>>

\* the function fn has been applied
Returned(fn) == status = "Applied" /\ args.fn = fn

\* isAccountEmpty reads the length of the code hash of the account, which is present
ApplyIsAccountEmpty ==
    \E state \in SmallWorlds :
        /\ hasAccount(state, Contract)
        /\ Applied("isAccountEmpty", <<state, Contract>>, isAccountEmpty(state, Contract))

ApplyIsAccountDead ==
    \E state \in SmallWorlds, a \in { Contract, Absent } :
        Applied("isAccountDead", <<state, a>>, isAccountDead(state, a))

\* S(T): the bytes of the hash of the recovered key from index 96 on
sender(transaction) ==
    bytesToAddress(slice(digest(KEC(<<"ECDSARECOVER", transaction>>)), 96,
                         Len(digest(KEC(<<"ECDSARECOVER", transaction>>)))))

\* x === y where y is an array made for the comparison: no x is that array
strictEqualsNewArray(x, y) == FALSE

\* equation (65), with g0, v0 and m of equations (61), (64) and (66); the
\* account of the sender is read whether the state holds it or not, and the
\* sender is an address, never null
isTransactionValid(transaction, block, state) ==
    LET senderAddress == sender(transaction)
        intrinsicGasCost ==
            Len(SelectSeq(transaction.data, LAMBDA byte : byte = 0)) * 4
                + Len(SelectSeq(transaction.data, LAMBDA byte : byte # 0)) * 16
                + (IF transaction.to = {} THEN 32000 ELSE 0)
                + 21000
        upFrontGasCost ==
            IF transaction.type \in { 0, 1 }
            THEN transaction.gasLimit * transaction.gasPrice + transaction.value
            ELSE transaction.gasLimit * transaction.maxFeePerGas + transaction.value
        txMaxGasPrice ==
            IF transaction.type \in { 0, 1 } THEN transaction.gasPrice
            ELSE transaction.maxFeePerGas
    IN  IF ~hasAccount(state, senderAddress)
        THEN [threw |-> TRUE, value |-> FALSE]
        ELSE [threw |-> FALSE,
              value |->
                  /\ senderAddress \in Int
                  /\ strictEqualsNewArray(state[senderAddress].codeHash, KEC(<<>>))
                  /\ transaction.nonce = state[senderAddress].nonce
                  /\ intrinsicGasCost <= transaction.gasLimit
                  /\ upFrontGasCost <= state[senderAddress].balance
                  /\ txMaxGasPrice <= block.baseFeePerGas
                  /\ transaction.gasLimit <= block.gasLimit - block.cumulativeGasUsed]

\* transactions of type 0 and 2 that call an account; to is the set of the
\* address called, empty when to is null
Transactions ==
    { [type |-> t, nonce |-> n, gasLimit |-> g, gasPrice |-> p, maxFeePerGas |-> p,
       value |-> 0, to |-> { Contract }, data |-> d] :
        t \in { 0, 2 }, n \in { 0, 1 }, g \in { 20000, 30000 }, p \in { 1, 2 },
        d \in { <<>>, <<0, 1>> } }

\* the header's base fee and gas limit, and the gas used by the last receipt
Blocks ==
    { [baseFeePerGas |-> f, gasLimit |-> 40000, cumulativeGasUsed |-> u] :
        f \in { 1, 2 }, u \in { 0, 15000 } }

\* the states hold no account, or one under the key of the sender's address
ApplyIsTransactionValid ==
    \E transaction \in Transactions, block \in Blocks :
    \E state \in { <<>> } \cup
           { setAccount(<<>>, sender(transaction),
                 [nonce |-> n, balance |-> b, storage |-> <<>>,
                  codeHash |-> KEC(<<>>), code |-> <<>>]) :
               n \in { 0, 1 }, b \in { 0, 100000 } } :
        Applied("isTransactionValid", <<transaction, block, state>>,
                isTransactionValid(transaction, block, state))

\* equation (63), f
priorityFee(transaction, block) ==
    IF transaction.type \in { 0, 1 }
    THEN transaction.gasPrice - block.baseFeePerGas
    ELSE Min(transaction.maxPriorityFeePerGas,
             transaction.maxFeePerGas - block.baseFeePerGas)

\* equation (62), p
effectiveGasPrice(transaction, block) ==
    IF transaction.type \in { 0, 1 } THEN transaction.gasPrice
    ELSE priorityFee(transaction, block) + block.baseFeePerGas

\* equation (64), v0
upFrontGasCost(transaction) ==
    IF transaction.type \in { 0, 1 }
    THEN transaction.gasLimit * transaction.gasPrice + transaction.value
    ELSE transaction.gasLimit * transaction.maxFeePerGas + transaction.value

\* equation (68): the account of the sender is written whether the state
\* holds it or not
createCheckpointState(state, transaction, block) ==
    IF ~hasAccount(state, sender(transaction))
    THEN [threw |-> TRUE, state |-> state]
    ELSE [threw |-> FALSE,
          state |-> [state EXCEPT
              ![sender(transaction)].balance =
                  @ - transaction.gasLimit * effectiveGasPrice(transaction, block),
              ![sender(transaction)].nonce = @ + 1]]

\* transactions of the three types whose prices lie on both sides of the base fee
PricedTransactions ==
    { [type |-> t, nonce |-> 0, gasLimit |-> g, gasPrice |-> p, maxFeePerGas |-> m,
       maxPriorityFeePerGas |-> f, value |-> v, to |-> { Contract }, data |-> <<>>] :
        t \in { 0, 1, 2 }, g \in { 21000, 30000 }, p \in { 1, 2 }, m \in { 1, 2, 3 },
        f \in { 0, 1, 3 }, v \in { 0, 5 } }

\* the states hold Contract and, or not, the sender with one of three balances
ApplyCreateCheckpointState ==
    \E transaction \in PricedTransactions, block \in Blocks :
    \E state \in { setAccount(<<>>, Contract, contractAccount(7, <<op.STOP>>)) } \cup
           { setAccount(setAccount(<<>>, Contract, contractAccount(7, <<op.STOP>>)),
                 sender(transaction),
                 [nonce |-> 0, balance |-> b, storage |-> <<>>,
                  codeHash |-> KEC(<<>>), code |-> <<>>]) :
               b \in { 0, 60005, 100000 } } :
        Applied("createCheckpointState",
                [transaction |-> transaction, block |-> block, state |-> state,
                 valid |-> isTransactionValid(transaction, block, state)],
                createCheckpointState(state, transaction, block))

\* the sequences over S of length at most n
SeqsUpTo(S, n) == UNION { [1..k -> S] : k \in 0..n }

\* f(t) that ignores t
hpFlagAlwaysZero(t) == 0

\* f(t)
hpFlag(t) == IF t # 0 THEN 2 ELSE 0

\* new Uint8Array(array): each number is kept modulo 256
Uint8Array(array) == [i \in 1..Len(array) |-> array[i] % 256]

\* HP(x, t)
hexPrefixEncode(nibbles, t) ==
    IF Len(nibbles) % 2 = 0
    THEN Uint8Array(<<16 * hpFlag(t)>> \o
             [k \in 1..(Len(nibbles) \div 2) |-> 16 * nibbles[2 * k - 1] + nibbles[2 * k]])
    ELSE Uint8Array(<<16 * (hpFlag(t) + 1) + nibbles[1]>> \o
             [k \in 1..(Len(nibbles) \div 2) |-> 16 * nibbles[2 * k] + nibbles[2 * k + 1]])

ApplyHexPrefixEncode ==
    \E nibbles \in SeqsUpTo({ 0, 1, 15 }, MaxNibbles), t \in { 0, 1, 2 } :
        Applied("hexPrefixEncode", <<nibbles, t>>, hexPrefixEncode(nibbles, t))

\* the inputs of RLP: a byte array, a list of inputs, or a bigint
ByteArray(x) == <<"Uint8Array", x>>
List(x) == <<"List", x>>
Bigint(x) == <<"bigint", <<x>>>>

\* BE(x): the bytes of the hexadecimal writing of x, "0" padded to "00"
RECURSIVE toBigEndian(_)
toBigEndian(x) == IF x < 256 THEN <<x>> ELSE toBigEndian(x \div 256) \o <<x % 256>>

\* Rb(x); the long form starts with new Uint8Array(183 + n), n + 183 zeros
encodeBytes(x) ==
    IF Len(x) = 1 /\ x[1] < 128 THEN x
    ELSE IF Len(x) < 56 THEN <<128 + Len(x)>> \o x
    ELSE [i \in 1..(183 + Len(toBigEndian(Len(x)))) |-> 0] \o toBigEndian(Len(x)) \o x

RECURSIVE RLP(_)
RECURSIVE rlpSerialize(_)

\* s(x): the encodings of the items, one after the other
rlpSerialize(x) == IF Len(x) = 0 THEN <<>> ELSE RLP(Head(x)) \o rlpSerialize(Tail(x))

\* Rl(x) that leaves the length of the payload out of the first byte
encodeListWithoutLength(x) == <<192>> \o rlpSerialize(x)

\* Rl(x)
encodeList(x) ==
    IF Len(rlpSerialize(x)) < 56
    THEN <<192 + Len(rlpSerialize(x))>> \o rlpSerialize(x)
    ELSE <<247 + Len(toBigEndian(Len(rlpSerialize(x))))>>
             \o toBigEndian(Len(rlpSerialize(x))) \o rlpSerialize(x)

\* RLP(x), the function rlp of the source
RLP(x) ==
    CASE x[1] = "bigint" -> encodeBytes(toBigEndian(x[2][1]))
      [] x[1] = "Uint8Array" -> encodeBytes(x[2])
      [] OTHER -> encodeList(x[2])

\* the byte arrays encoded: up to two bytes, and 55 and 56 bytes
ByteArrays ==
    SeqsUpTo({ 0, 127, 128 }, 2) \cup { [i \in 1..55 |-> 1], [i \in 1..56 |-> 1] }

\* the items of the lists encoded
ListItems ==
    { ByteArray(x) : x \in SeqsUpTo({ 0, 127, 128 }, 1) }
    \cup { Bigint(x) : x \in { 0, 1, 2, 3, 4, 128, 256 } }
    \cup { List(<<>>), List(<<List(<<>>)>>), List(<<List(<<>>), List(<<List(<<>>)>>)>>),
           ByteArray([i \in 1..55 |-> 1]) }

\* the lists encoded: up to two items, and the lists of the tests of the source
Lists ==
    SeqsUpTo(ListItems, 2)
    \cup { <<List(<<>>), List(<<List(<<>>)>>), List(<<List(<<>>), List(<<List(<<>>)>>)>>)>>,
           <<Bigint(1), Bigint(2), Bigint(3), Bigint(4)>> }

ApplyRlp ==
    \E x \in { ByteArray(b) : b \in ByteArrays } \cup { List(l) : l \in Lists } :
        Applied("rlp", x, RLP(x))

\* k': the nibbles of the bytes of a key, the high one of each byte first
nibblizeKey(key) ==
    [i \in 1..(2 * Len(key)) |->
        IF i % 2 = 1 THEN key[(i + 1) \div 2] \div 16 ELSE key[i \div 2] % 16]

\* y(J); an entry is the pair of its key and its value
nibblizeDataset(dataset) ==
    [i \in 1..Len(dataset) |-> <<nibblizeKey(dataset[i][1]), dataset[i][2]>>]

\* the length of commonPrefix when the loop is left.  The array starts as the
\* first nibble of the first key and grows by the nibble of the first key at
\* the index of its last element, so it is k[0], k[0], k[1], k[2], ...; it
\* grows as long as every key holds, at the index of the last element, the
\* last element
RECURSIVE commonPrefixLength(_, _)
commonPrefixLength(dataset, length) ==
    IF /\ Len(dataset[1][1]) >= length
       /\ \A e \in 1..Len(dataset) :
           /\ Len(dataset[e][1]) >= length
           /\ dataset[e][1][length] = dataset[1][1][IF length <= 2 THEN 1 ELSE length - 1]
    THEN commonPrefixLength(dataset, length + 1)
    ELSE length

\* the value of the branch: that of the first entry whose key ends at the index
branchValue(dataset, nibbleIndex) ==
    IF \E e \in 1..Len(dataset) : Len(dataset[e][1]) = nibbleIndex
    THEN dataset[CHOOSE e \in 1..Len(dataset) :
                     /\ Len(dataset[e][1]) = nibbleIndex
                     /\ \A d \in 1..(e - 1) : Len(dataset[d][1]) # nibbleIndex][2]
    ELSE <<>>

\* what n returns for a node: its last element when its encoding is shorter
\* than 32 bytes, the hash of the encoding otherwise
nodeReference(node) ==
    IF Len(RLP(node)) < 32 THEN node[2][Len(node[2])]
    ELSE ByteArray(digest(KEC(RLP(node))))

RECURSIVE createNode(_, _)

\* n(J, i)
n(dataset, nibbleIndex) ==
    IF Len(dataset) = 0 THEN ByteArray(<<>>)
    ELSE nodeReference(createNode(dataset, nibbleIndex))

\* c(J, i), of a dataset that is not empty and whose first key is not empty:
\* a leaf, an extension or a branch
createNode(dataset, nibbleIndex) ==
    IF Len(dataset) = 1
    THEN List(<<ByteArray(hexPrefixEncode(
                    slice(dataset[1][1], nibbleIndex, Len(dataset[1][1]) - 1), 1)),
                ByteArray(dataset[1][2])>>)
    ELSE IF nibbleIndex # commonPrefixLength(dataset, 1)
    THEN List(<<ByteArray(hexPrefixEncode(
                    slice(dataset[1][1], nibbleIndex, commonPrefixLength(dataset, 1) - 1),
                    0)),
                n(dataset, commonPrefixLength(dataset, 1))>>)
    ELSE List([nibble \in 1..16 |->
                  n(SelectSeq(dataset,
                        LAMBDA entry : /\ Len(entry[1]) > nibbleIndex
                                       /\ entry[1][nibbleIndex + 1] = nibble - 1),
                    nibbleIndex + 1)]
              \o <<ByteArray(branchValue(dataset, nibbleIndex))>>)

\* TRIE(J): the hash, or the exception of createNode
computeRootHash(dataset) ==
    IF computeRootHashThrows(dataset) THEN [threw |-> TRUE, value |-> <<>>]
    ELSE [threw |-> FALSE,
          value |-> digest(KEC(RLP(createNode(nibblizeDataset(dataset), 0))))]

\* the values of the entries: no byte, one byte, and 32 bytes
EntryValues == { <<>>, <<5>>, [i \in 1..32 |-> 9] }

\* datasets of nibble keys: none, one entry, and two entries whose keys part
\* at the first or at the second nibble
NibbleDatasets ==
    { <<>> }
    \cup { <<<<key, value>>>> : key \in SeqsUpTo({ 1, 2 }, 3), value \in EntryValues }
    \cup { <<<<<<1, 2>>, v>>, <<<<k, 3>>, w>>>> : k \in { 1, 3 }, v, w \in EntryValues }

ApplyN ==
    \E dataset \in NibbleDatasets, nibbleIndex \in { 0, 1 } :
        Applied("n", <<dataset, nibbleIndex>>, n(dataset, nibbleIndex))

ApplyComputeRootHash ==
    \E dataset \in { <<>> } \cup
            { <<<<key, value>>>> : key \in SeqsUpTo({ 1, 18 }, 2), value \in EntryValues } :
        Applied("computeRootHash", dataset, computeRootHash(dataset))

\* the caller's machine state at a CALL of Callee with the given output window
callerAtCall(memory, outputOffset, outputSize) ==
    [initialMachineState(MaxGas) EXCEPT
        !.memory = memory,
        !.stack = <<0, Callee, 0, 0, 0, outputOffset, outputSize>>]

\* the end of the CALL and CALLCODE steps, from the result of the message call:
\* the results are those of a call that failed or succeeded with an output
ApplyCallOutcome ==
    \E memory \in { <<>>, <<11, 12, 13, 14, 15, 16, 17, 18>> },
       outputOffset \in { 0, 1, 4 }, outputSize \in 0..3,
       output \in { <<>>, <<7>>, <<7, 8>>, <<7, 8, 9>> }, z \in { 0, 1 } :
        Applied("callOutcome",
            [memory |-> memory, outputOffset |-> outputOffset, outputSize |-> outputSize,
             status |-> z, output |-> output],
            callOutcome(World(<<op.CALL>>, <<>>),
                callerAtCall(memory, outputOffset, outputSize), emptyAccruedSubState,
                messageCallEnvironment(World(<<op.CALL>>, <<>>), Sender, Sender, Contract,
                    Contract, 0, 0, <<>>, 0, TRUE),
                CallResult(World(<<op.CALL>>, <<>>), 0, emptyAccruedSubState, z, output)))

(* The arithmetic steps on 256-bit words.  A stack item is a bigint in       *)
(* [0, 2^256); it is written here as its 32 bytes, the most significant      *)
(* first, so that every word of that range can be computed with.             *)

\* the number of bytes of a stack item
WordBytes == 32

\* a sum that loses the carry between its bytes
carryLost(sum) == 0

\* the carry of the sum of two bytes and a carry
carry(sum) == sum \div 256

\* body applied to the value of x, which is computed once
with(x, body(_)) == CHOOSE r \in { body(v) : v \in { x } } : TRUE

\* the carry out of the bytes from..to of a + b, given the carry into byte
\* to: the second half of the bytes carries into the first
RECURSIVE carryOut(_, _, _, _, _)
carryOut(a, b, from, to, carryIn) ==
    IF from > to THEN carryIn
    ELSE IF from = to THEN carry(a[from] + b[from] + carryIn)
    ELSE with(carryOut(a, b, ((from + to) \div 2) + 1, to, carryIn),
              LAMBDA c : carryOut(a, b, from, (from + to) \div 2, c))

\* the bytes from..to of a + b, given the carry into byte to
RECURSIVE addBytes(_, _, _, _, _)
addBytes(a, b, from, to, carryIn) ==
    IF from > to THEN <<>>
    ELSE IF from = to THEN <<(a[from] + b[from] + carryIn) % 256>>
    ELSE with(carryOut(a, b, ((from + to) \div 2) + 1, to, carryIn),
              LAMBDA c : addBytes(a, b, from, (from + to) \div 2, c))
            \o addBytes(a, b, ((from + to) \div 2) + 1, to, carryIn)

\* the bytes 1..i of a + b, given the carry into byte i
addFrom(a, b, i, carryIn) == with(carryIn, LAMBDA c : addBytes(a, b, 1, i, c))

\* (a + b) % UINT_256_BOUND: the carry out of the first byte is dropped
addModulo(a, b) == addFrom(a, b, Len(a), 0)

\* the borrow of a difference of bytes
borrow(difference) == IF difference < 0 THEN 1 ELSE 0

\* the borrow out of the bytes from..to of a - b, given the borrow from
\* byte to: the second half of the bytes borrows from the first
RECURSIVE borrowOut(_, _, _, _, _)
borrowOut(a, b, from, to, borrowIn) ==
    IF from > to THEN borrowIn
    ELSE IF from = to THEN borrow(a[from] - b[from] - borrowIn)
    ELSE with(borrowOut(a, b, ((from + to) \div 2) + 1, to, borrowIn),
              LAMBDA c : borrowOut(a, b, from, (from + to) \div 2, c))

\* the bytes from..to of a - b, given the borrow from byte to
RECURSIVE subBytes(_, _, _, _, _)
subBytes(a, b, from, to, borrowIn) ==
    IF from > to THEN <<>>
    ELSE IF from = to THEN <<(a[from] - b[from] - borrowIn + 256) % 256>>
    ELSE with(borrowOut(a, b, ((from + to) \div 2) + 1, to, borrowIn),
              LAMBDA c : subBytes(a, b, from, (from + to) \div 2, c))
            \o subBytes(a, b, ((from + to) \div 2) + 1, to, borrowIn)

\* the bytes 1..i of a - b, given the borrow from byte i
subFrom(a, b, i, borrowIn) == with(borrowIn, LAMBDA c : subBytes(a, b, 1, i, c))

\* c = a - b; if (c < 0n) c = UINT_256_BOUND + c
subWrapped(a, b) == subFrom(a, b, Len(a), 0)

stepADD(stack) == unshift(shift(stack, 2), addModulo(stack[1], stack[2]))

stepSUB(stack) == unshift(shift(stack, 2), subWrapped(stack[1], stack[2]))

\* words around the ends of the range and of its signed halves, and around
\* the 32nd bit
Words ==
    { [i \in 1..WordBytes |-> IF i = k THEN v ELSE fill] :
        k \in { 1, 28, 29, 32 }, v \in { 0, 1, 2, 127, 128, 255 }, fill \in { 0, 255 } }

\* ADD of a and b, then SUB of b from the sum
ApplyAddThenSub ==
    \E a, b \in Words :
        Applied("ADD;SUB", <<a, b>>,
            [sum |-> stepADD(<<a, b, b>>), difference |-> stepSUB(stepADD(<<a, b, b>>))])

\* the word of a number below 2^8
word(x) == [i \in 1..WordBytes |-> IF i = WordBytes THEN x ELSE 0]

\* a < b, for two bigints written on as many bytes, from byte i on: at the
\* first byte where they differ, the byte of a is the smaller
lessFrom(a, b, i) ==
    \E j \in i..Len(a) :
        /\ a[j] < b[j]
        /\ SubSeq(a, i, j - 1) = SubSeq(b, i, j - 1)

\* bit k of a, the most significant being bit 1
bitOf(a, k) == (a[((k - 1) \div 8) + 1] \div (2 ^ (7 - ((k - 1) % 8)))) % 2

\* one step of the long division of a by b in base 2: bit k of a is brought
\* down to the remainder, and b taken from it if it can be
divideBit(a, b, k, qr) ==
    with(addFrom(qr.remainder, qr.remainder, Len(a), bitOf(a, k)),
         LAMBDA doubled :
             IF lessFrom(doubled, b, 1)
             THEN [quotient |-> addFrom(qr.quotient, qr.quotient, Len(a), 0),
                   remainder |-> doubled]
             ELSE [quotient |-> addFrom(qr.quotient, qr.quotient, Len(a), 1),
                   remainder |-> subWrapped(doubled, b)])

\* the steps of the long division for the bits from..to of a, the first half
\* of them before the second
RECURSIVE divideBits(_, _, _, _, _)
divideBits(a, b, from, to, qr) ==
    IF from = to THEN divideBit(a, b, from, qr)
    ELSE with(divideBits(a, b, from, (from + to) \div 2, qr),
              LAMBDA half : divideBits(a, b, ((from + to) \div 2) + 1, to, half))

\* a / b of two words, b not 0 (bigint division is floored); a byte is added
\* in front while dividing, for the remainder to be doubled in
divide(a, b) ==
    with(<<<<0>> \o a, <<0>> \o b>>,
         LAMBDA ab :
             Tail(divideBits(ab[1], ab[2], 1, 8 * Len(ab[1]),
                     [quotient |-> <<0>> \o word(0),
                      remainder |-> <<0>> \o word(0)]).quotient))

\* BigInt.asIntN(32, x) of a word: its last four bytes, read as a signed number
asIntN32(x) ==
    (IF x[WordBytes - 3] >= 128 THEN x[WordBytes - 3] - 256 ELSE x[WordBytes - 3]) * 16777216
        + x[WordBytes - 2] * 65536 + x[WordBytes - 1] * 256 + x[WordBytes]

\* BigInt.asUintN(32, c) of the bigint c that is - x, or x: the last four
\* bytes of the two's complement
asUintN32(negated, x) ==
    [i \in 1..WordBytes |->
        IF i < WordBytes - 3 THEN 0
        ELSE IF negated THEN subWrapped(word(0), x)[i] ELSE x[i]]

\* sign(a / b) of two numbers of 32 bits, b not 0: -1n if asIntN(32, a / b) is
\* negative, which a quotient of 2^31 is, and 1n otherwise; the quotient is
\* negative when the signs differ and it is not 0
sign(a, b) ==
    IF \/ a < 0 /\ b > 0 /\ a <= -b
       \/ a > 0 /\ b < 0 /\ -a <= b
       \/ a < 0 /\ a + 2147483647 = -1 /\ b = -1
    THEN -1 ELSE 1

\* the SDIV step: the stack after it, or the RangeError of a bigint division
\* by zero.  asIntN(32, a) is never (-2)^255, so the second branch is dead
stepSDIV(stack) ==
    IF stack[2] = word(0)
    THEN [threw |-> FALSE, stack |-> unshift(shift(stack, 2), asUintN32(FALSE, word(0)))]
    ELSE IF FALSE /\ asIntN32(stack[2]) = -1
    THEN [threw |-> FALSE, stack |-> unshift(shift(stack, 2), word(0))]
    ELSE IF asIntN32(stack[2]) = 0
    THEN [threw |-> TRUE, stack |-> stack]
    ELSE [threw |-> FALSE,
          stack |-> unshift(shift(stack, 2),
                asUintN32(sign(asIntN32(stack[1]), asIntN32(stack[2])) = -1,
                    divide(stack[1], stack[2])))]

stepSLT(stack) ==
    unshift(shift(stack, 2),
        IF asIntN32(stack[1]) < asIntN32(stack[2]) THEN word(1) ELSE word(0))

stepSGT(stack) ==
    unshift(shift(stack, 2),
        IF asIntN32(stack[1]) > asIntN32(stack[2]) THEN word(1) ELSE word(0))

\* the words SDIV is applied to: 0, 1, 2, 2^32, 2^255, -129 and -1
Dividends ==
    { [i \in 1..WordBytes |-> IF i = p[1] THEN p[2] ELSE p[3]] :
        p \in { <<1, 0, 0>>, <<WordBytes, 1, 0>>, <<WordBytes, 2, 0>>, <<WordBytes - 4, 1, 0>>,
                <<1, 128, 0>>, <<WordBytes, 127, 255>>, <<1, 255, 255>> } }

ApplySignedComparison ==
    \E a, b \in Words :
        Applied("SLT;SGT", <<a, b>>, [SLT |-> stepSLT(<<a, b>>), SGT |-> stepSGT(<<a, b>>)])

ApplySdiv ==
    \E a, b \in Dividends : Applied("SDIV", <<a, b>>, stepSDIV(<<a, b>>))

\* the RETURN and REVERT steps of a frame whose memory holds bytes
ApplyReturn ==
    \E opcode \in { op.RETURN, op.REVERT },
       memory \in { <<>>, <<11, 12, 13, 14, 15, 16, 17, 18>> },
       offset \in 0..3, size \in 0..3 :
        Applied("RETURN", [opcode |-> opcode, memory |-> memory, offset |-> offset, size |-> size],
            step(World(<<opcode>>, <<>>),
                [initialMachineState(MaxGas) EXCEPT !.memory = memory, !.stack = <<offset, size>>],
                emptyAccruedSubState,
                messageCallEnvironment(World(<<opcode>>, <<>>), Sender, Sender, Contract,
                    Contract, 0, 0, <<>>, 0, TRUE)))

\* a step of an opcode that reads the account at x, and what an access of x
\* costs before and after it
ApplyAccountAccess ==
    \E opcode \in { op.BALANCE, op.EXTCODESIZE, op.EXTCODECOPY, op.EXTCODEHASH },
       x \in { Callee, Absent, Contract, precompiledAddresses[1], precompiledAddresses[9] },
       calleeCode \in { <<>>, <<op.STOP>> } :
        Applied("accountAccess", [opcode |-> opcode, x |-> x],
            [costBefore |-> getAccessCost(x, emptyAccruedSubState),
             costAfter |-> getAccessCost(x,
                step(World(<<opcode>>, calleeCode),
                    [initialMachineState(MaxGas) EXCEPT !.stack = <<x, 0, 0, 0>>],
                    emptyAccruedSubState,
                    messageCallEnvironment(World(<<opcode>>, calleeCode), Sender, Sender,
                        Contract, Contract, 0, 0, <<>>, 0, TRUE)).subState),
             accessedAccounts |->
                step(World(<<opcode>>, calleeCode),
                    [initialMachineState(MaxGas) EXCEPT !.stack = <<x, 0, 0, 0>>],
                    emptyAccruedSubState,
                    messageCallEnvironment(World(<<opcode>>, calleeCode), Sender, Sender,
                        Contract, Contract, 0, 0, <<>>, 0, TRUE)).subState.accessedAccounts])

\* what a later access of the slot on top of the stack of ms costs, after
\* the step that returned r
laterSlotAccess(r, ms, env) ==
    [threw |-> r.threw,
     accessedStorageKeys |-> r.subState.accessedStorageKeys,
     isWarm |-> isWarm(ms, r.subState, env),
     sLoadCost |-> sLoadCost(ms, r.subState, env)]

\* an SLOAD or SSTORE step on the slot key of Contract, then the cost of a
\* later access of the same slot
ApplySlotAccess ==
    \E opcode \in { op.SLOAD, op.SSTORE }, key \in { 0, 1 }, value \in { 0, 5, 7 } :
        Applied("slotAccess", [opcode |-> opcode, key |-> key, value |-> value],
            laterSlotAccess(
                step(World(<<opcode>>, <<>>),
                    [initialMachineState(MaxGas) EXCEPT !.stack = <<key, value>>],
                    emptyAccruedSubState,
                    messageCallEnvironment(World(<<opcode>>, <<>>), Sender, Sender,
                        Contract, Contract, 0, 0, <<>>, 0, TRUE)),
                [initialMachineState(MaxGas) EXCEPT !.stack = <<key, value>>],
                messageCallEnvironment(World(<<opcode>>, <<>>), Sender, Sender,
                    Contract, Contract, 0, 0, <<>>, 0, TRUE)))

\* the CREATE step of a frame of Contract, whose balance covers the value,
\* with the empty init code
ApplyCreate ==
    \E value \in { 0, 1 }, callDepth \in { 0, 1 }, gas \in { MidGas, MaxGas } :
        Applied("CREATE", [value |-> value, callDepth |-> callDepth, gas |-> gas],
            step(World(<<op.CREATE>>, <<>>),
                [initialMachineState(gas) EXCEPT !.stack = <<value, 0, 0>>],
                emptyAccruedSubState,
                messageCallEnvironment(World(<<op.CREATE>>, <<>>), Sender, Sender,
                    Contract, Contract, 0, 0, <<>>, callDepth, TRUE)))

\* the SELFDESTRUCT step of a frame of Contract, which holds the balance
\* given, with the recipient r on the stack
ApplySelfDestruct ==
    \E balance \in { 0, 10 }, r \in { Callee, Sender, Absent, Contract } :
        Applied("SELFDESTRUCT",
            [r |-> r,
             worldState |-> setAccount(World(<<op.SELFDESTRUCT>>, <<>>), Contract,
                                contractAccount(balance, <<op.SELFDESTRUCT>>))],
            step(setAccount(World(<<op.SELFDESTRUCT>>, <<>>), Contract,
                    contractAccount(balance, <<op.SELFDESTRUCT>>)),
                [initialMachineState(MaxGas) EXCEPT !.stack = <<r>>],
                emptyAccruedSubState,
                messageCallEnvironment(World(<<op.SELFDESTRUCT>>, <<>>), Sender, Sender,
                    Contract, Contract, 0, 0, <<>>, 0, TRUE)))

\* a step of every opcode of the instruction table on a stack that holds
\* what the opcode pops
ApplyStep ==
    \E w \in opcodes,
       stack \in { <<0, Callee, 0, 0, 0, 0, 0>>, <<1, Contract, 0, 0, 0, 0, 0, 3>> } :
        Applied("step", [opcode |-> w, stack |-> stack],
            step(World(<<w, 0>>, <<>>),
                [initialMachineState(MaxGas) EXCEPT !.stack = stack],
                emptyAccruedSubState,
                messageCallEnvironment(World(<<w, 0>>, <<>>), Sender, Sender,
                    Contract, Contract, 0, 0, <<>>, 0, TRUE)))

\* the tests of gasCost on the opcode, one for every surcharge it adds, in
\* the order of the source; each is the set of the opcodes it charges
costClasses ==
    << { op.SSTORE }, { op.EXTCODECOPY }, extAccountCostInstructions,
       { op.LOG0 }, { op.LOG1 }, { op.LOG2 }, { op.LOG3 }, { op.LOG4 },
       callCostInstructions, { op.SELFDESTRUCT }, { op.CREATE }, { op.CREATE2 },
       { op.JUMPDEST }, { op.SLOAD }, zeroCostInstructions, baseCostInstructions,
       veryLowCostInstructions, midCostInstructions, highCostInstructions >>

\* gasCost of every opcode of the instruction table, with no memory expansion
ApplyGasCost ==
    \E w \in opcodes,
       stack \in { <<0, Callee, 0, 0, 0, 0, 0>>, <<1, Contract, 0, 0, 0, 0, 0, 3>> } :
        Applied("gasCost", [opcode |-> w, stack |-> stack],
            IF gasCostThrows(World(<<w, 0>>, <<>>), World(<<w, 0>>, <<>>),
                   [initialMachineState(MaxGas) EXCEPT !.stack = stack],
                   messageCallEnvironment(World(<<w, 0>>, <<>>), Sender, Sender,
                       Contract, Contract, 0, 0, <<>>, 0, TRUE))
            THEN [threw |-> TRUE, cost |-> 0, classes |-> {}]
            ELSE [threw |-> FALSE,
                  cost |-> gasCost(World(<<w, 0>>, <<>>), World(<<w, 0>>, <<>>),
                      [initialMachineState(MaxGas) EXCEPT !.stack = stack],
                      emptyAccruedSubState,
                      messageCallEnvironment(World(<<w, 0>>, <<>>), Sender, Sender,
                          Contract, Contract, 0, 0, <<>>, 0, TRUE), 0),
                  classes |-> { i \in DOMAIN costClasses : w \in costClasses[i] }])

LibraryNext ==
    \/ ApplyCreateCheckpointState
    \/ ApplyGasCost
    \/ ApplyStep
    \/ ApplySelfDestruct
    \/ ApplyCreate
    \/ ApplySlotAccess
    \/ ApplyAccountAccess
    \/ ApplyReturn
    \/ ApplySdiv
    \/ ApplySignedComparison
    \/ ApplyAddThenSub
    \/ ApplyCallOutcome
    \/ ApplyN
    \/ ApplyComputeRootHash
    \/ ApplyRlp
    \/ ApplyHexPrefixEncode
    \/ ApplyIsAccountEmpty
    \/ ApplyIsAccountDead
    \/ ApplyIsTransactionValid

LibrarySpec == LibraryInit /\ [][LibraryNext]_vars

-----------------------------------------------------------------------------
(* The loops of the step function, one turn at a time.  A handler is entered *)
(* with its operands, takes the turns of its loop and returns.               *)

getDataByte(callData, x) == IF x >= Len(callData) THEN 0 ELSE callData[x + 1]

\* the handler fn is entered with its operands and the variables of its loop
Enter(fn, input, locals) ==
    /\ status = "Idle"
    /\ status' = "Running"
    /\ args' = [fn |-> fn, input |-> input]
    /\ result' = locals
    /\ UNCHANGED <<worldState, machineState, subState, environment, prev, last>>

\* the test of the loop, and one turn of it or the rest of the handler
Turn(fn, continue, locals, returned) ==
    /\ status = "Running"
    /\ args.fn = fn
    /\ IF continue
       THEN status' = "Running" /\ result' = locals
       ELSE status' = "Returned" /\ result' = returned
    /\ UNCHANGED <<args, worldState, machineState, subState, environment, prev, last>>

\* CALLDATALOAD: for (let i = a ; a < a + 32n ; i++) data[Number(i)] = ...
EnterCallDataLoad ==
    \E a \in { 0, 1, 31 }, callData \in { <<>>, <<1, 2, 3>> } :
        Enter("CALLDATALOAD", [a |-> a, callData |-> callData],
            [i |-> a, data |-> [k \in 1..WordBytes |-> 0]])

\* a write past the end of data, a Uint8Array of 32 bytes, is ignored; i is
\* counted up to 32, from where on every turn leaves data as it is
TurnCallDataLoad ==
    Turn("CALLDATALOAD",
        args.input.a < args.input.a + WordBytes,
        [i |-> IF result.i < WordBytes THEN result.i + 1 ELSE result.i,
         data |-> IF result.i < WordBytes
                  THEN [result.data EXCEPT
                           ![result.i + 1] = getDataByte(args.input.callData, result.i)]
                  ELSE result.data],
        [stack |-> <<result.data>>])

\* EXP: while (b > 0) { ... b = b / 2n ... }; the operands are small enough
\* for c and x to stay below 2^256
EnterExp ==
    \E a \in 0..3, b \in 0..15 :
        Enter("EXP", [a |-> a, b |-> b], [b |-> b, c |-> 1, x |-> a])

TurnExp ==
    Turn("EXP",
        result.b > 0,
        [b |-> result.b \div 2,
         c |-> IF result.b % 2 = 1 THEN result.c * result.x ELSE result.c,
         x |-> result.x * result.x],
        [stack |-> <<result.c>>])

\* CALLDATACOPY: for (let i = 0 ; i < size ; i++) memory[memOffset + i] = ...
EnterCallDataCopy ==
    \E memOffset \in { 0, 2 }, dataOffset \in { 0, 1 }, size \in 0..3 :
        Enter("CALLDATACOPY",
            [memOffset |-> memOffset, dataOffset |-> dataOffset, size |-> size,
             callData |-> <<1, 2, 3>>],
            [i |-> 0, memory |-> <<11, 12, 13, 14>>])

TurnCallDataCopy ==
    Turn("CALLDATACOPY",
        result.i < args.input.size,
        [i |-> result.i + 1,
         memory |-> IF args.input.memOffset + result.i < Len(result.memory)
                    THEN [result.memory EXCEPT
                             ![args.input.memOffset + result.i + 1] =
                                 getDataByte(args.input.callData,
                                     args.input.dataOffset + result.i)]
                    ELSE result.memory],
        [memory |-> result.memory])

\* the calls of createNode that createNode(dataset, nibbleIndex) makes through
\* n: none for a leaf, one for an extension, and for a branch one for every
\* nibble that some key holds at the index
createNodeCalls(dataset, nibbleIndex) ==
    IF Len(dataset) = 1 THEN <<>>
    ELSE IF nibbleIndex # commonPrefixLength(dataset, 1)
    THEN <<[dataset |-> dataset, nibbleIndex |-> commonPrefixLength(dataset, 1)]>>
    ELSE SelectSeq(
            [nibble \in 1..16 |->
                [dataset |-> SelectSeq(dataset,
                                 LAMBDA entry : /\ Len(entry[1]) > nibbleIndex
                                                /\ entry[1][nibbleIndex + 1] = nibble - 1),
                 nibbleIndex |-> nibbleIndex + 1]],
            LAMBDA call : Len(call.dataset) > 0)

\* the keys of one byte, of two nibbles of 1 and 2
TrieKeys == { <<17>>, <<18>>, <<33>>, <<34>> }

\* computeRootHash of a dataset of one to three distinct keys: createNode is
\* called on the nibbles of the dataset at the index 0
EnterComputeRootHash ==
    \E keys \in { k \in SeqsUpTo(TrieKeys, 3) :
                     Len(k) > 0 /\ \A i, j \in 1..Len(k) : i # j => k[i] # k[j] } :
        Enter("computeRootHash", [dataset |-> [k \in 1..Len(keys) |-> <<keys[k], <<5>>>>]],
            [calls |-> <<[dataset |-> nibblizeDataset([k \in 1..Len(keys) |-> <<keys[k], <<5>>>>]),
                          nibbleIndex |-> 0]>>])

\* the first of the calls of createNode still to be made is made, and makes
\* its own; computeRootHash returns when none is left
TurnCreateNode ==
    Turn("computeRootHash",
        result.calls # <<>>,
        [calls |-> createNodeCalls(Head(result.calls).dataset, Head(result.calls).nibbleIndex)
                       \o Tail(result.calls)],
        [calls |-> <<>>])

LoopNext ==
    \/ EnterComputeRootHash
    \/ TurnCreateNode
    \/ EnterCallDataLoad
    \/ TurnCallDataLoad
    \/ EnterExp
    \/ TurnExp
    \/ EnterCallDataCopy
    \/ TurnCallDataCopy

\* a handler that is running takes its next turn
LoopSpec == LibraryInit /\ [][LoopNext]_vars /\ WF_vars(LoopNext)

\* C21: isAccountEmpty is true exactly when the account has the code hash of
\* the empty code, nonce 0 and balance 0; isAccountDead is true exactly when
\* the address holds no account or an empty one.
C21_EmptyAndDead ==
    /\ Returned("isAccountEmpty") =>
           result = /\ args.input[1][args.input[2]].codeHash = KEC(<<>>)
                    /\ args.input[1][args.input[2]].nonce = 0
                    /\ args.input[1][args.input[2]].balance = 0
    /\ Returned("isAccountDead") =>
           result = \/ ~hasAccount(args.input[1], args.input[2])
                    \/ /\ args.input[1][args.input[2]].codeHash = KEC(<<>>)
                       /\ args.input[1][args.input[2]].nonce = 0
                       /\ args.input[1][args.input[2]].balance = 0

\* C22: the sub-state collections behave as sets: accessedAccounts,
\* accessedStorageKeys, touchedAccounts and selfDestructAccounts never hold
\* the same address, or the same address and key, twice.
C22_SubStateCollectionsAreSets ==
    \A collection \in { subState.accessedAccounts, subState.accessedStorageKeys,
                        subState.touchedAccounts, subState.selfDestructAccounts } :
        \A i, j \in 1..Len(collection) : collection[i] = collection[j] => i = j

\* C23: isTransactionValid is true only if the nonce of T is the sender's, the
\* intrinsic gas is at most the gas limit of T, the up-front cost is at most
\* the sender's balance, the maximum gas price of T is at least the base fee
\* of the block, and the gas limit of T is at most the gas left in the block.
C23_ValidOnlyIf ==
    Returned("isTransactionValid") /\ ~result.threw /\ result.value =>
        LET T == args.input[1]
            B == args.input[2]
            account == args.input[3][sender(T)]
        IN  /\ T.nonce = account.nonce
            /\ 21000 + Len(SelectSeq(T.data, LAMBDA byte : byte = 0)) * 4
                     + Len(SelectSeq(T.data, LAMBDA byte : byte # 0)) * 16 <= T.gasLimit
            /\ T.gasLimit * T.gasPrice + T.value <= account.balance
            /\ T.gasPrice >= B.baseFeePerGas
            /\ T.gasLimit <= B.gasLimit - B.cumulativeGasUsed

\* isTransactionValid never returns true
NeverValid == Returned("isTransactionValid") => result.threw \/ ~result.value

\* C27: hexPrefixEncode returns floor(n/2) + 1 bytes for n nibbles; the high
\* nibble of the first byte is (2 if t # 0, else 0) + (n mod 2), its low
\* nibble is the first nibble when n is odd and 0 when n is even, and the
\* remaining nibbles follow in order, two per byte.
C27_HexPrefix ==
    Returned("hexPrefixEncode") =>
        LET nibbles == args.input[1]
            t == args.input[2]
            count == Len(nibbles)
            packed == nibblizeKey(result)
        IN  /\ Len(result) = count \div 2 + 1
            /\ \A i \in 1..Len(result) : result[i] \in 0..255
            /\ packed[1] = (IF t # 0 THEN 2 ELSE 0) + (count % 2)
            /\ count % 2 = 1 => SubSeq(packed, 2, Len(packed)) = nibbles
            /\ count % 2 = 0 => packed[2] = 0 /\ SubSeq(packed, 3, Len(packed)) = nibbles

\* an odd number of nibbles, three at least, encoded with the flag set
C27_Witness ==
    /\ Returned("hexPrefixEncode")
    /\ Len(args.input[1]) % 2 = 1
    /\ Len(args.input[1]) >= 3
    /\ args.input[2] # 0
    /\ result[1] = 16 * 3 + args.input[1][1]

\* C26, as the claim states it: a byte string of length 1 with value below 128
\* encodes to itself; every byte string shorter than 56 bytes is encoded with
\* the first byte 0x80 + its length; a list whose item encodings take less
\* than 56 bytes encodes to the byte 0xC0 + the payload length followed by
\* the item encodings in order.
C26_EveryShortStringHasLengthPrefix ==
    /\ Returned("rlp") /\ args.input[1] = "Uint8Array" =>
        /\ Len(args.input[2]) = 1 /\ args.input[2][1] < 128 => result = args.input[2]
        /\ Len(args.input[2]) < 56 => result[1] = 128 + Len(args.input[2])
    /\ Returned("rlp") /\ args.input[1] = "List" =>
        (Len(rlpSerialize(args.input[2])) < 56 =>
            result = <<192 + Len(rlpSerialize(args.input[2]))>> \o rlpSerialize(args.input[2]))

\* C26, amended: a byte string of length 1 with value below 128 encodes to
\* itself; every other byte string shorter than 56 bytes encodes to the byte
\* 0x80 + its length followed by the string; a list whose item encodings take
\* less than 56 bytes encodes to the byte 0xC0 + the payload length followed
\* by the item encodings in order.
C26_RlpShortForms ==
    /\ Returned("rlp") /\ args.input[1] = "Uint8Array" =>
        /\ Len(args.input[2]) = 1 /\ args.input[2][1] < 128 => result = args.input[2]
        /\ Len(args.input[2]) < 56 /\ ~(Len(args.input[2]) = 1 /\ args.input[2][1] < 128)
               => result = <<128 + Len(args.input[2])>> \o args.input[2]
    /\ Returned("rlp") /\ args.input[1] = "List" =>
        (Len(rlpSerialize(args.input[2])) < 56 =>
            result = <<192 + Len(rlpSerialize(args.input[2]))>> \o rlpSerialize(args.input[2]))

\* the list of the empty list, of the list of it, and of the list of both is
\* encoded to the eight bytes of the test of the source
C26_Witness ==
    /\ Returned("rlp")
    /\ args.input[1] = "List"
    /\ Len(args.input[2]) = 3
    /\ result = <<199, 192, 193, 192, 195, 192, 193, 192>>

\* C24: computeRootHash([]) returns a value, always the same 32 bytes, the
\* hash of the empty trie.
C24_EmptyTrieHash ==
    Returned("computeRootHash") /\ args.input = <<>> =>
        /\ ~result.threw
        /\ result.value = digest(KEC(RLP(ByteArray(<<>>))))

\* C25: the reference n(J, i) to a node built from a dataset that is not
\* empty is the node itself when its RLP encoding is shorter than 32 bytes
\* and the 32-byte hash of the encoding otherwise; the reference for an empty
\* dataset is the empty byte string.
C25_NodeReference ==
    Returned("n") =>
        /\ Len(args.input[1]) = 0 => result = ByteArray(<<>>)
        /\ Len(args.input[1]) # 0 =>
               result = IF Len(RLP(createNode(args.input[1], args.input[2]))) < 32
                        THEN createNode(args.input[1], args.input[2])
                        ELSE ByteArray(digest(KEC(RLP(createNode(args.input[1],
                                                                  args.input[2])))))

\* C30: on a successful CALL or CALLCODE with the output window
\* (outputOffset, outputSize), the first min(outputSize, length of the output)
\* bytes of the output are written to the caller's memory at outputOffset,
\* outputOffset + 1, ... in order, every memory byte outside that window keeps
\* its value, and 1 is pushed.
C30_OutputCopiedToWindow ==
    Returned("callOutcome") /\ args.input.status = 1 /\ Len(args.input.memory) > 0 =>
        /\ ~result.threw
        /\ result.machineState.stack[1] = 1
        /\ Len(result.machineState.memory) = Len(args.input.memory)
        /\ \A j \in 1..Len(args.input.memory) :
               result.machineState.memory[j] =
                   IF /\ j - 1 >= args.input.outputOffset
                      /\ j - 1 < args.input.outputOffset
                                     + Min(args.input.outputSize, Len(args.input.output))
                   THEN args.input.output[j - args.input.outputOffset]
                   ELSE args.input.memory[j]

\* the number a word with these bytes stands for is below 2^256 and not negative
IsWord(x) == Len(x) = WordBytes /\ \A i \in 1..WordBytes : x[i] \in 0..255

\* C28: for all a and b in [0, 2^256), the ADD step on a and b followed by the
\* SUB step that subtracts the same b from the sum leaves a on the stack, and
\* the sum and the difference are both in [0, 2^256).
C28_AddThenSub ==
    Returned("ADD;SUB") =>
        /\ result.difference = <<args.input[1]>>
        /\ \A x \in { result.sum[1], result.difference[1] } : IsWord(x)
        /\ Len(result.sum) = 2

\* a sum that wrapped around: 2^256 - 1 plus 2 is 1
C28_Witness ==
    /\ Returned("ADD;SUB")
    /\ args.input[1] = [i \in 1..WordBytes |-> 255]
    /\ args.input[2] = [i \in 1..WordBytes |-> IF i = WordBytes THEN 2 ELSE 0]
    /\ result.sum[1] = [i \in 1..WordBytes |-> IF i = WordBytes THEN 1 ELSE 0]
    /\ result.difference = <<args.input[1]>>

\* the word x, read as a 256-bit two's-complement number, is negative
negative(x) == x[1] >= 128

\* the absolute value of the number the word x is in two's complement
magnitude(x) == IF negative(x) THEN subWrapped(word(0), x) ELSE x

\* signed256(a) < signed256(b)
signedLess(a, b) == IF negative(a) # negative(b) THEN negative(a) ELSE lessFrom(a, b, 1)

\* the truncated quotient of signed256(a) by signed256(b), as a word
signedQuotient(a, b) ==
    IF negative(a) # negative(b)
    THEN subWrapped(word(0), divide(magnitude(a), magnitude(b)))
    ELSE divide(magnitude(a), magnitude(b))

\* C29: the signed steps read their operands as 256-bit two's-complement
\* numbers: SLT of a and b is 1 exactly when signed256(a) < signed256(b), SGT
\* is 1 exactly when signed256(a) > signed256(b), SDIV by a word other than 0
\* is the truncated signed quotient written back as a word, and SDIV of
\* - 2^255 by - 1 is - 2^255.
C29_SignedSteps ==
    /\ Returned("SLT;SGT") =>
            /\ result.SLT = <<IF signedLess(args.input[1], args.input[2]) THEN word(1) ELSE word(0)>>
            /\ result.SGT = <<IF signedLess(args.input[2], args.input[1]) THEN word(1) ELSE word(0)>>
    /\ Returned("SDIV") /\ args.input[2] # word(0) =>
            /\ ~ result.threw
            /\ result.stack = <<signedQuotient(args.input[1], args.input[2])>>

\* C31: a RETURN or REVERT step with offset and size on the stack sets the
\* output of the frame to exactly the size bytes of memory at offset,
\* offset + 1, ... offset + size - 1, and to the empty output when size is 0.
C31_ReturnedData ==
    Returned("RETURN") /\ args.input.offset + args.input.size <= Len(args.input.memory) =>
        result.machineState.output =
            SubSeq(args.input.memory, args.input.offset + 1,
                args.input.offset + args.input.size)

\* C32: after a step of BALANCE, EXTCODESIZE, EXTCODECOPY or EXTCODEHASH on
\* an address x, x is in the accessed accounts of the returned sub-state, so
\* a later access of x costs the warm 100 and the cold 2600 is charged at most
\* once; the 9 precompiled addresses are warm from the start.
C32_AccessedAccountIsWarm ==
    Returned("accountAccess") =>
        /\ includes(result.accessedAccounts, args.input.x)
        /\ result.costAfter = cost.warmAccess
        /\ result.costBefore =
              IF args.input.x \in 1..9 THEN cost.warmAccess ELSE cost.coldAccountAccess

\* C33: after an SLOAD or SSTORE step on the key k in a frame running at the
\* address a, the pair of a and k is warm: a later SLOAD of k at a costs the
\* warm 100 and a later SSTORE gets no cold surcharge, so the cold 2100 is
\* charged at most once for an address and a key.
C33_AccessedSlotIsWarm ==
    Returned("slotAccess") /\ ~ result.threw =>
        /\ result.isWarm
        /\ result.sLoadCost = cost.warmAccess

\* C34: a CREATE step that creates (the balance covers the value, the depth is
\* below the limit, the init code halts normally) returns, and the value it
\* pushes is the address of the account createContract added: the world state
\* the step returns holds an account with nonce 1 at the pushed address.
C34_CreatedAtPushedAddress ==
    Returned("CREATE") =>
        /\ ~ result.threw
        /\ hasAccount(result.worldState, result.machineState.stack[1])
        /\ result.worldState[result.machineState.stack[1]].nonce = 1

\* C35: a SELFDESTRUCT step in the account a with a recipient r other than a
\* conserves value: afterwards the balance of a is 0, the balance of r is its
\* previous balance (0 if r was absent) plus the previous balance of a, a
\* recipient that existed is not removed, no other account changes, and the
\* sum of all balances is unchanged.
C35_SelfDestructConservesValue ==
    Returned("SELFDESTRUCT") /\ args.input.r # Contract =>
        /\ ~ result.threw
        /\ balanceAt(result.worldState, Contract) = 0
        /\ balanceAt(result.worldState, args.input.r) =
              balanceAt(args.input.worldState, args.input.r)
                + balanceAt(args.input.worldState, Contract)
        /\ hasAccount(args.input.worldState, args.input.r) =>
              hasAccount(result.worldState, args.input.r)
        /\ SameBut(args.input.worldState, result.worldState, { Contract, args.input.r })
        /\ TotalBalance(result.worldState) = TotalBalance(args.input.worldState)

\* C36: a call of step returns, for every opcode and every stack content: no
\* handler, those of CALLDATALOAD, EXP and the copy loops included, runs for
\* ever.
C36_StepReturns == [](status = "Running" => <>(status = "Returned"))

\* C37: computeRootHash terminates for every finite dataset of distinct keys
\* of equal length, not 0: the recursion between createNode and n reaches
\* leaves, whatever nibbles the keys share.
C37_ComputeRootHashTerminates ==
    [](status = "Running" /\ args.fn = "computeRootHash" => <>(status = "Returned"))

\* C38: for every opcode of the instruction table, a step on a stack holding
\* at least what the opcode pops changes the length of the stack by exactly
\* the push less the pop of the table (- 1 for SELFDESTRUCT, - 5 for
\* DELEGATECALL and STATICCALL, - 3 for CREATE2, + 1 for DUP1, 0 for SWAP1).
C38_StackLengthFollowsTable ==
    Returned("step") /\ ~ result.threw =>
        Len(result.machineState.stack) - Len(args.input.stack) =
            instructions[args.input.opcode].push - instructions[args.input.opcode].pop

\* C39: every opcode of the instruction table is in exactly one cost class
\* of gasCost, which adds the surcharge of that class only to the memory
\* expansion: JUMPDEST costs 1, JUMP costs 8, PREVRANDAO costs 2, and no
\* opcode outside the zero tier (STOP, RETURN, REVERT) gets a surcharge of 0.
C39_OneCostClass ==
    Returned("gasCost") /\ ~ result.threw =>
        /\ Cardinality(result.classes) = 1
        /\ args.input.opcode = op.JUMPDEST => result.cost = cost.jumpDest
        /\ args.input.opcode = op.JUMP => result.cost = cost.mid
        /\ args.input.opcode = op.PREVRANDAO => result.cost = cost.base
        /\ args.input.opcode \notin zeroCostInstructions => result.cost > 0

\* the account of the sender after createCheckpointState keeps the value of
\* the transaction, has its nonce raised by 1, and no other account changes
checkpointKeepsValue ==
    /\ ~ result.threw
    /\ result.state[sender(args.input.transaction)].balance >= args.input.transaction.value
    /\ result.state[sender(args.input.transaction)].nonce =
           args.input.state[sender(args.input.transaction)].nonce + 1
    /\ DOMAIN result.state = DOMAIN args.input.state
    /\ \A a \in DOMAIN result.state \ { sender(args.input.transaction) } :
           result.state[a] = args.input.state[a]

\* C40: for every transaction of type 0, 1 or 2 that isTransactionValid
\* accepts (type 2 with maxFeePerGas >= baseFeePerGas), createCheckpointState
\* leaves the sender a balance >= the transaction's value, raises the sender's
\* nonce by exactly 1 and changes no other account.
C40_CheckpointKeepsValue ==
    /\ Returned("createCheckpointState")
    /\ ~ args.input.valid.threw
    /\ args.input.valid.value
    /\ args.input.transaction.type = 2 =>
           args.input.transaction.maxFeePerGas >= args.input.block.baseFeePerGas
    => checkpointKeepsValue

\* isTransactionValid accepts no transaction createCheckpointState is applied to
CheckpointNeverValid ==
    Returned("createCheckpointState") =>
        args.input.valid.threw \/ ~ args.input.valid.value

\* the effective gas price is at most the price of the up-front cost, so the
\* sender who can pay the up-front cost keeps the value
CheckpointWhenAffordable ==
    /\ Returned("createCheckpointState")
    /\ hasAccount(args.input.state, sender(args.input.transaction))
    /\ upFrontGasCost(args.input.transaction)
           <= args.input.state[sender(args.input.transaction)].balance
    => checkpointKeepsValue

====
